---- MODULE Spec2Model ----
(***************************************************************************)
(* Nockchain wallet Qt front-end (src/nock2.py, src/nockwallet-v0.1.1.py). *)
(*                                                                         *)
(* The program keeps a configuration dictionary loaded from a JSON file,   *)
(* runs the external wallet binary from GUI handlers, scrapes its output   *)
(* with regular expressions and appends lines to a log view.               *)
(*                                                                         *)
(* Texts (stdout, stderr, parser arguments) are sequences of one-character *)
(* strings; command-line arguments and configuration values are strings.   *)
(* Python values held by the configuration are tagged (str / bool), JSON   *)
(* values in the file are tagged separately (string / true / false), so    *)
(* that json.dump and json.load are conversions and not the identity.      *)
(***************************************************************************)
EXTENDS Integers, Sequences, FiniteSets, TLC

VARIABLES
    app,         \* which program runs: "nock2" or "v011"
    config,      \* the module-level dict `config`
    disk,        \* the state of CONFIG_FILE
    tx_engine,   \* TransactionEngine.wallet_binary, fixed at construction
    log,         \* the paragraphs of LogArea, oldest first
    widgets,     \* labels and tables the handlers write
    action,      \* the handler that ran last
    dialogs,     \* the QMessageBox dialogs the last handler showed
    calls,       \* the subprocess.run invocations of the last handler
    fileops,     \* the accesses to CONFIG_FILE of the last handler
    log_mark,    \* Len(log) when the last handler started
    escaped,     \* an exception left the last handler
    blocked,     \* the last handler never returned
    text,        \* the argument of the parser call under study
    ret,         \* the result of the last pure call
    inflight     \* the handlers inside subprocess.run, the latest last

vars == <<app, config, disk, tx_engine, log, widgets, action, dialogs, calls,
          fileops, log_mark, escaped, blocked, text, ret, inflight>>

-----------------------------------------------------------------------------
(* Python and JSON values *)

PyStr(s) == [py |-> "str", s |-> s, b |-> FALSE]

PyBool(b) == [py |-> "bool", s |-> "", b |-> b]

\* A test that takes every value for true.
TruthyAlways(v) == TRUE

\* Python truthiness of a configuration value: `if config['wallet_imported']`.
Truthy(v) == IF v.py = "bool" THEN v.b ELSE v.s /= ""

JString(s) == [t |-> "string", s |-> s]

JTrue == [t |-> "true", s |-> ""]

JFalse == [t |-> "false", s |-> ""]

\* A dump that writes str(v): True and False become the strings "True", "False".
json_dump_str(v) ==
    JString(IF v.py = "bool" THEN (IF v.b THEN "True" ELSE "False") ELSE v.s)

\* json.dump of one value: str -> JSON string, True/False -> true/false.
json_dump_value(v) ==
    IF v.py = "bool" THEN (IF v.b THEN JTrue ELSE JFalse) ELSE JString(v.s)

\* json.load of one value.
json_load_value(j) ==
    IF j.t = "string" THEN PyStr(j.s) ELSE PyBool(j.t = "true")

\* json.dump(config, f): a JSON object with one member per key.
json_dump(cfg) == [k \in DOMAIN cfg |-> json_dump_value(cfg[k])]

\* The dict json.load returns for a JSON object.
json_load_object(members) == [k \in DOMAIN members |-> json_load_value(members[k])]

-----------------------------------------------------------------------------
(* The configuration file *)

HOME == "/home/u"

DEFAULT_SERVER == "https://nockchain-api.zorp.io"

DEFAULT_PORT == "50051"

DEFAULT_CONFIG ==
    [k \in {"wallet_binary", "wallet_path", "wallet_imported", "client_type",
            "public_server", "private_port", "last_used_directory"} |->
        CASE k = "wallet_binary" -> PyStr("nockchain-wallet")
          [] k = "wallet_path" -> PyStr("")
          [] k = "wallet_imported" -> PyBool(FALSE)
          [] k = "client_type" -> PyStr("public")
          [] k = "public_server" -> PyStr(DEFAULT_SERVER)
          [] k = "private_port" -> PyStr(DEFAULT_PORT)
          [] OTHER -> PyStr(HOME)]

default_config ==
    [k \in {"wallet_binary", "wallet_path", "wallet_imported", "client_type",
            "public_server", "private_port"} |-> DEFAULT_CONFIG[k]]

Defaults(a) == IF a = "nock2" THEN DEFAULT_CONFIG ELSE default_config

\* File states.  kind: absent | unreadable | invalid (not JSON) | object |
\* array | string | number | null.  An array item is a two-element array
\* [k, v] (pair) or a number (no pair).
FileAbsent == [kind |-> "absent", members |-> << >>, items |-> << >>, str |-> ""]

FileOf(kind) == [FileAbsent EXCEPT !.kind = kind]

FileObject(members) == [FileAbsent EXCEPT !.kind = "object", !.members = members]

FileArray(items) == [FileAbsent EXCEPT !.kind = "array", !.items = items]

FileString(s) == [FileAbsent EXCEPT !.kind = "string", !.str = s]

Pair(k, j) == [pair |-> TRUE, k |-> k, v |-> j]

NoPair == [pair |-> FALSE, k |-> "", v |-> JFalse]

\* dict.update(other) for a dict `other`, and {**d, **other}.
DictUpdate(d, other) ==
    [k \in DOMAIN d \cup DOMAIN other |-> IF k \in DOMAIN other THEN other[k] ELSE d[k]]

\* dict.update(iterable): the pairs are stored one by one until an element
\* that is no pair raises; what was stored before stays.
RECURSIVE UpdateFromItems(_, _)
UpdateFromItems(d, items) ==
    IF items = << >> \/ ~Head(items).pair THEN d
    ELSE UpdateFromItems(DictUpdate(d, [k \in {Head(items).k} |->
                                            json_load_value(Head(items).v)]),
                         Tail(items))

\* nock2.py lines 40-47: config = DEFAULT_CONFIG.copy(); config.update(json.load(f))
\* inside try/except Exception.  A str iterates its characters (no pairs: the
\* first one raises, the empty str does nothing); a number or null raises.
LoadNock2(f) ==
    CASE f.kind = "object" -> DictUpdate(DEFAULT_CONFIG, json_load_object(f.members))
      [] f.kind = "array" -> UpdateFromItems(DEFAULT_CONFIG, f.items)
      [] OTHER -> DEFAULT_CONFIG

\* nockwallet-v0.1.1.py load_config: {**default_config, **config_data}; anything
\* that is no mapping raises TypeError and the defaults are returned.
load_config(f) ==
    IF f.kind = "object" THEN DictUpdate(default_config, json_load_object(f.members))
    ELSE default_config

Load(a, f) == IF a = "nock2" THEN LoadNock2(f) ELSE load_config(f)

\* Whether loading opens the file for reading (CONFIG_FILE.exists()).
LoadReads(f) == IF f.kind = "absent" THEN << >> ELSE <<"read">>

\* The file json.dump leaves when open(CONFIG_FILE, 'w') succeeds.
SavedFile(cfg) == FileObject(json_dump(cfg))

-----------------------------------------------------------------------------
(* Texts and the regular expressions of WalletOutputParser *)

Digit == {"0", "1", "2", "3", "4", "5", "6", "7", "8", "9"}

\* \s
Space == {" ", "\n", "\t"}

\* [\d.,]
NumChar == Digit \cup {".", ","}

LowerCase ==
    <<"a", "b", "c", "d", "e", "f", "g", "h", "i", "j", "k", "l", "m",
      "n", "o", "p", "q", "r", "s", "t", "u", "v", "w", "x", "y", "z">>

UpperCase ==
    <<"A", "B", "C", "D", "E", "F", "G", "H", "I", "J", "K", "L", "M",
      "N", "O", "P", "Q", "R", "S", "T", "U", "V", "W", "X", "Y", "Z">>

Range(seq) == {seq[i] : i \in DOMAIN seq}

\* [A-Za-z0-9]
AlNum == Range(LowerCase) \cup Range(UpperCase) \cup Digit

\* str.lower() of one character and of a text.
LowerChar(c) ==
    IF c \in Range(UpperCase)
    THEN LowerCase[CHOOSE i \in DOMAIN UpperCase : UpperCase[i] = c]
    ELSE c

Lower(t) == [i \in DOMAIN t |-> LowerChar(t[i])]

DigitValue(c) ==
    CASE c = "0" -> 0 [] c = "1" -> 1 [] c = "2" -> 2 [] c = "3" -> 3 [] c = "4" -> 4
      [] c = "5" -> 5 [] c = "6" -> 6 [] c = "7" -> 7 [] c = "8" -> 8 [] OTHER -> 9

\* The literal `lit` stands in t at position i.
MatchLit(t, i, lit) ==
    /\ i >= 1
    /\ i + Len(lit) - 1 <= Len(t)
    /\ SubSeq(t, i, i + Len(lit) - 1) = lit

\* A greedy character-class repetition from position i: the position after
\* the longest run of characters of class C.
RunEnd(t, i, C) ==
    IF i > Len(t) THEN i
    ELSE CHOOSE j \in i..(Len(t) + 1) :
             /\ \A k \in i..(j - 1) : t[k] \in C
             /\ j = Len(t) + 1 \/ t[j] \notin C

\* str.replace(c, '') for a one-character c.
Remove(t, c) == SelectSeq(t, LAMBDA x : x /= c)

\* int(s) accepts a non-empty run of digits here (the groups hold [\d.,] only).
IntOk(t) == t /= << >> /\ \A i \in DOMAIN t : t[i] \in Digit

RECURSIVE IntValue(_)
IntValue(t) ==
    IF t = << >> THEN 0
    ELSE IntValue(SubSeq(t, 1, Len(t) - 1)) * 10 + DigitValue(t[Len(t)])

\* A scan that keeps the last position where the pattern matches.
Rightmost(starts) == CHOOSE i \in starts : \A j \in starts : j <= i

\* re.search scans from the left and stops at the first position where the
\* pattern matches.
Leftmost(starts) == CHOOSE i \in starts : \A j \in starts : i <= j

\* A match object: the bounds of group(1) and its text; found = FALSE is None.
NoMatch == [found |-> FALSE, from |-> 0, to |-> 0, group |-> << >>]

Match(t, g) == [found |-> TRUE, from |-> g[1], to |-> g[2], group |-> SubSeq(t, g[1], g[2])]

\* re.search(pattern, t): the pattern is tried at every position from the
\* left and the first position where it matches gives the match object.
\* Group(t, i) is the pattern tried at position i: the bounds of its group,
\* <<0, 0>> when it does not match there.
re_search(t, Group(_, _)) ==
    LET At(starts) == IF starts = {} THEN NoMatch ELSE Match(t, Group(t, Leftmost(starts)))
    IN  At({i \in 1..Len(t) : Group(t, i) /= <<0, 0>>})

\* key \s* (C+) \s* suffix at position i: the bounds <<from, to>> of the group
\* when it matches, <<0, 0>> otherwise.  The classes are disjoint from \s and
\* from the first character of the suffix, so greedy matching never backtracks.
KeyGroup(t, i, key, C, suffix) ==
    LET Group(j1, j2) ==
            IF j2 > j1 /\ MatchLit(t, RunEnd(t, j2, Space), suffix)
            THEN <<j1, j2 - 1>> ELSE <<0, 0>>
        From(j1) == Group(j1, RunEnd(t, j1, C))
    IN  IF ~MatchLit(t, i, key) THEN <<0, 0>>
        ELSE From(RunEnd(t, i + Len(key), Space))

\* r'Total:\s*([\d,\.]+)\s*nicks' at position i.
TotalGroup(t, i) ==
    KeyGroup(t, i, <<"T", "o", "t", "a", "l", ":">>, NumChar, <<"n", "i", "c", "k", "s">>)

\* r'Available:\s*([\d,\.]+)\s*nicks' at position i.
AvailableGroup(t, i) ==
    KeyGroup(t, i, <<"A", "v", "a", "i", "l", "a", "b", "l", "e", ":">>, NumChar, <<"n", "i", "c", "k", "s">>)

\* r'Height:\s*([\d.,]+)' at position i.
HeightGroup(t, i) == KeyGroup(t, i, <<"H", "e", "i", "g", "h", "t", ":">>, NumChar, << >>)

NICKS_PER_NOCK == 65536

\* f"{x:.6f}" of x = nicks / 65536: the whole part and the millionths, rounded
\* half to even (the quotient is exact in binary floating point).
Fmt6(nicks) ==
    LET rem == nicks % NICKS_PER_NOCK
        q == (rem * 15625) \div 1024
        r == (rem * 15625) % 1024
        up == r > 512 \/ (r = 512 /\ q % 2 = 1)
    IN  [whole |-> nicks \div NICKS_PER_NOCK, micro |-> IF up THEN q + 1 ELSE q]

NoBalance ==
    [none |-> TRUE, total_nicks |-> 0, total_nock |-> <<0, 1>>,
     available_nicks |-> 0, available_nock |-> <<0, 1>>,
     formatted |-> <<Fmt6(0), Fmt6(0)>>]

\* nock2.py parse_balance: the first 'Total:' match gives total_nicks, the
\* first 'Available:' match (0 when there is none) available_nicks; a group
\* int() rejects raises ValueError, which the function turns into None.
parse_balance(output) ==
    LET Balance(total_nicks, available_nicks) ==
            [none |-> FALSE,
             total_nicks |-> total_nicks,
             total_nock |-> <<total_nicks, NICKS_PER_NOCK>>,
             available_nicks |-> available_nicks,
             available_nock |-> <<available_nicks, NICKS_PER_NOCK>>,
             formatted |-> <<Fmt6(total_nicks), Fmt6(available_nicks)>>]
        Parsed(total_match, total_str, available_match, available_str) ==
            IF ~total_match.found THEN NoBalance
            ELSE IF ~IntOk(total_str) THEN NoBalance
            ELSE IF available_match.found /\ ~IntOk(available_str) THEN NoBalance
            ELSE Balance(IntValue(total_str),
                         IF available_match.found THEN IntValue(available_str) ELSE 0)
        Searched(total_match, available_match) ==
            Parsed(total_match, Remove(total_match.group, ","),
                   available_match, Remove(available_match.group, ","))
    IN  Searched(re_search(output, TotalGroup), re_search(output, AvailableGroup))

\* Optional[int] and Optional[str] results.
None == [none |-> TRUE, n |-> 0, s |-> << >>]

SomeInt(n) == [none |-> FALSE, n |-> n, s |-> << >>]

SomeStr(s) == [none |-> FALSE, n |-> 0, s |-> s]

\* int(s) inside try/except ValueError.
IntOrNone(found, s) == IF found /\ IntOk(s) THEN SomeInt(IntValue(s)) ELSE None

\* match.group(1) if match else None
GroupOrNone(match) == IF match.found THEN SomeStr(match.group) ELSE None

\* nock2.py parse_height: r'Height:\s*([\d.,]+)', ',' and '.' removed, int().
parse_height(output) ==
    LET Height(match) == IntOrNone(match.found, Remove(Remove(match.group, ","), "."))
    IN  Height(re_search(output, HeightGroup))

\* \d+\.\d+\.\d+ from position j: the position after the match, 0 for none.
DottedEnd(t, j) ==
    LET Dotted(a, b, c) ==
            IF /\ a > j /\ MatchLit(t, a, <<".">>)
               /\ b > a + 1 /\ MatchLit(t, b, <<".">>)
               /\ c > b + 1
            THEN c ELSE 0
        Second(a, b) == Dotted(a, b, RunEnd(t, b + 1, Digit))
        First(a) == Second(a, RunEnd(t, a + 1, Digit))
    IN  First(RunEnd(t, j, Digit))

VersionGroup(t, i) ==
    LET key == <<"V", "e", "r", "s", "i", "o", "n", ":">>
        Group(j, end) == IF end = 0 THEN <<0, 0>> ELSE <<j, end - 1>>
        From(j) == Group(j, DottedEnd(t, j))
    IN  IF ~MatchLit(t, i, key) THEN <<0, 0>>
        ELSE From(RunEnd(t, i + Len(key), Space))

\* nock2.py parse_wallet_version: r'Version:\s*(\d+\.\d+\.\d+)'.
parse_wallet_version(output) == GroupOrNone(re_search(output, VersionGroup))

NotesCountGroup(t, i) ==
    LET key == <<"n", "u", "m", "b", "e", "r", " ", "o", "f", " ", "n", "o", "t", "e", "s", ":">>
        Group(j1, j2) == IF j2 > j1 THEN <<j1, j2 - 1>> ELSE <<0, 0>>
        From(j1) == Group(j1, RunEnd(t, j1, Digit))
    IN  IF ~MatchLit(Lower(t), i, key) THEN <<0, 0>>
        ELSE From(RunEnd(t, i + Len(key), Space))

\* nockwallet-v0.1.1.py parse_number_of_notes:
\* r'Number of Notes:\s*(\d+)' with re.IGNORECASE.
parse_number_of_notes(output) ==
    LET Count(match) == IntOrNone(match.found, match.group)
    IN  Count(re_search(output, NotesCountGroup))

BlockHashGroup(t, i) ==
    LET key == <<"f", "r", "o", "m", " ", "b", "l", "o", "c", "k">>
        Group(j1, j2) ==
            IF j1 > i + Len(key) /\ j2 > j1 THEN <<j1, j2 - 1>> ELSE <<0, 0>>
        From(j1) == Group(j1, RunEnd(t, j1, AlNum))
    IN  IF ~MatchLit(t, i, key) THEN <<0, 0>>
        ELSE From(RunEnd(t, i + Len(key), Space))

\* nockwallet-v0.1.1.py parse_block_hash: r'from block\s+([A-Za-z0-9]+)'.
parse_block_hash(output) == GroupOrNone(re_search(output, BlockHashGroup))

\* The smallest and the largest member of a non-empty set of positions.
Min(S) == CHOOSE i \in S : \A j \in S : i <= j

Max(S) == CHOOSE i \in S : \A j \in S : j <= i

\* A text taken as it was typed.
Unstripped(t) == t

\* str.strip(): the text without its leading and trailing whitespace.
Strip(t) ==
    LET Inner(inner) == IF inner = {} THEN << >> ELSE SubSeq(t, Min(inner), Max(inner))
    IN  Inner({i \in DOMAIN t : t[i] \notin Space})

\* r'Balance:\s*(\d[\d,]*)\s*nicks?' with re.IGNORECASE at position i.
BalanceGroup(t, i) ==
    LET key == <<"b", "a", "l", "a", "n", "c", "e", ":">>
        Group(j1, j2) ==
            IF /\ j1 <= Len(t) /\ t[j1] \in Digit
               /\ MatchLit(Lower(t), RunEnd(t, j2, Space), <<"n", "i", "c", "k">>)
            THEN <<j1, j2 - 1>> ELSE <<0, 0>>
        From(j1) == Group(j1, RunEnd(t, j1, Digit \cup {","}))
    IN  IF ~MatchLit(Lower(t), i, key) THEN <<0, 0>>
        ELSE From(RunEnd(t, i + Len(key), Space))

\* nockwallet-v0.1.1.py parse_balance: int(match.group(1).replace(',', '')).
parse_balance_v011(output) ==
    LET Balance(match) == IntOrNone(match.found, Remove(match.group, ","))
    IN  Balance(re_search(output, BalanceGroup))

\* r'at height\s*([\d.,]+)' with re.IGNORECASE at position i.
AtHeightGroup(t, i) ==
    KeyGroup(Lower(t), i, <<"a", "t", " ", "h", "e", "i", "g", "h", "t">>, NumChar, << >>)

\* nockwallet-v0.1.1.py parse_height
parse_height_v011(output) ==
    LET Height(match) == IntOrNone(match.found, Remove(Remove(match.group, ","), "."))
    IN  Height(re_search(output, AtHeightGroup))

\* r'Wallet Version:\s*(.+)' at position i: \s* runs over the whitespace after
\* the key and (.+) takes the rest of the line; when only whitespace follows
\* the key, \s* gives back up to the last character that is no newline.
WalletVersionGroup(t, i) ==
    LET key == <<"W", "a", "l", "l", "e", "t", " ", "V", "e", "r", "s", "i", "o", "n", ":">>
        Group(from) ==
            IF from = 0 THEN <<0, 0>>
            ELSE <<from, RunEnd(t, from, Range(t) \ {"\n"}) - 1>>
        Back(j1, back) ==
            Group(IF j1 <= Len(t) THEN j1 ELSE IF back = {} THEN 0 ELSE Max(back))
        From(j0, j1) == Back(j1, {j \in j0..(j1 - 1) : t[j] /= "\n"})
    IN  IF ~MatchLit(t, i, key) THEN <<0, 0>>
        ELSE From(i + Len(key), RunEnd(t, i + Len(key), Space))

\* nockwallet-v0.1.1.py parse_wallet_version: match.group(1).strip().
parse_wallet_version_v011(output) ==
    LET Version(match) == IF match.found THEN SomeStr(Strip(match.group)) ELSE None
    IN  Version(re_search(output, WalletVersionGroup))

-----------------------------------------------------------------------------
(* Lines of a text *)

\* str.split('\n'): the pieces between the newlines, empty pieces included.
RECURSIVE Split(_)
Split(t) ==
    LET CutAt(first) == <<SubSeq(t, 1, first - 1)>> \o Split(SubSeq(t, first + 1, Len(t)))
        Cut(nl) == IF nl = {} THEN <<t>> ELSE CutAt(Min(nl))
    IN  Cut({i \in DOMAIN t : t[i] = "\n"})

\* str.splitlines(): as split('\n') without the empty piece a final newline
\* (or the empty text) leaves.
splitlines(t) ==
    LET Lines(pieces) ==
            IF pieces[Len(pieces)] = << >> THEN SubSeq(pieces, 1, Len(pieces) - 1)
            ELSE pieces
    IN  Lines(Split(t))

\* sep.join(lines)
RECURSIVE JoinWith(_, _)
JoinWith(lines, sep) ==
    IF lines = << >> THEN << >>
    ELSE IF Len(lines) = 1 THEN lines[1]
    ELSE lines[1] \o <<sep>> \o JoinWith(Tail(lines), sep)

\* '\n'.join(lines)
Join(lines) == JoinWith(lines, "\n")

\* `pat in t`
Contains(t, pat) == \E i \in 1..(Len(t) + 1) : MatchLit(t, i, pat)

\* str.endswith / str.startswith
EndsWith(t, pat) == Len(pat) <= Len(t) /\ SubSeq(t, Len(t) - Len(pat) + 1, Len(t)) = pat

StartsWith(t, pat) == MatchLit(t, 1, pat)

Hex == Digit \cup {"a", "b", "c", "d", "e", "f"}

NOTE_ID_MIN == 40

\* A search that is content with a run one character short.
HasRunShort(line, C, n) ==
    \E i \in 1..Len(line) : RunEnd(line, i, C) - i >= n - 1

\* re.search(r'[0-9a-f]{40,}', line): a run of at least 40 characters of C.
HasRun(line, C, n) ==
    \E i \in 1..Len(line) : RunEnd(line, i, C) - i >= n

\* nock2.py parse_notes: the stripped lines that hold a note identifier.
parse_notes(output) ==
    LET Notes(kept) == [i \in DOMAIN kept |-> Strip(kept[i])]
    IN  Notes(SelectSeq(Split(output), LAMBDA line : HasRun(line, Hex, NOTE_ID_MIN)))

\* ['[0m', '[32m', '[33m', 'trace', 'debug']
NOISE == {<<"[", "0", "m">>, <<"[", "3", "2", "m">>, <<"[", "3", "3", "m">>, <<"t", "r", "a", "c", "e">>, <<"d", "e", "b", "u", "g">>}

\* nock2.py extract_error: the stripped lines without noise marker that are
\* not empty and do not start with '--', joined; stderr itself when none is left.
extract_error(stderr) ==
    LET Stripped(lines) == [i \in DOMAIN lines |-> Strip(lines[i])]
        Result(error_lines) == IF error_lines /= << >> THEN Join(error_lines) ELSE stderr
    IN  Result(SelectSeq(Stripped(Split(stderr)),
                         LAMBDA line : /\ \A x \in NOISE : ~Contains(Lower(line), x)
                                       /\ line /= << >>
                                       /\ ~StartsWith(line, <<"-", "-">>)))

\* nockwallet-v0.1.1.py parse_notes: r'[0-9a-zA-Z]{40,}'.
parse_notes_v011(output) ==
    LET Notes(kept) == [i \in DOMAIN kept |-> Strip(kept[i])]
    IN  Notes(SelectSeq(Split(output), LAMBDA line : HasRun(line, AlNum, NOTE_ID_MIN)))

\* skip_patterns of nockwallet-v0.1.1.py, as written in the source.
SKIP_PATTERNS ==
    NOISE \cup {<<"k", "e", "r", "n", "e", "l", ":", ":", "b", "o", "o", "t">>,
                <<"N", "o", "c", "k", "A", "p", "p", " ", "b", "o", "o", "t">>,
                <<"s", "a", "v", "e", " ", "i", "n", "t", "e", "r", "v", "a", "l">>}

\* nockwallet-v0.1.1.py extract_error: each pattern is looked for in
\* line.lower().
extract_error_v011(stderr) ==
    LET Stripped(lines) == [i \in DOMAIN lines |-> Strip(lines[i])]
        Result(error_lines) == IF error_lines /= << >> THEN Join(error_lines) ELSE stderr
    IN  Result(SelectSeq(Stripped(Split(stderr)),
                         LAMBDA line : /\ line /= << >>
                                       /\ \A x \in SKIP_PATTERNS : ~Contains(Lower(line), x)
                                       /\ ~StartsWith(line, <<"-", "-">>)))

-----------------------------------------------------------------------------
(* Command lines, log lines, dialogs and the state a handler works on *)

\* The str of a text, for command-line arguments.
RECURSIVE Str(_)
Str(t) == IF t = << >> THEN "" ELSE t[1] \o Str(Tail(t))

\* A command line built from the radio button in place of the stored
\* client_type.
_build_base_command_from_widgets(cfg, include_wallet) ==
    <<cfg["wallet_binary"].s, "--client", widgets.client_radio>> \o
    (IF include_wallet /\ Truthy(cfg["wallet_imported"])
     THEN <<"--wallet", cfg["wallet_path"].s>> ELSE << >>)

\* nockwallet-v0.1.1.py _build_base_command: no --wallet option.
_build_base_command_v011(cfg) ==
    <<cfg["wallet_binary"].s>> \o
    (IF cfg["client_type"] = PyStr("public")
     THEN <<"--client", "public">> \o
          (IF Truthy(cfg["public_server"]) /\ cfg["public_server"] /= PyStr(DEFAULT_SERVER)
           THEN <<"--public-grpc-server-addr", cfg["public_server"].s>> ELSE << >>)
     ELSE <<"--client", "private">> \o
          (IF Truthy(cfg["private_port"]) /\ cfg["private_port"] /= PyStr(DEFAULT_PORT)
           THEN <<"--private-grpc-server-port", cfg["private_port"].s>> ELSE << >>))

\* A base command that names the wallet whatever include_wallet says.
_build_base_command_with_wallet(cfg, include_wallet) ==
    _build_base_command_v011(cfg) \o
    (IF Truthy(cfg["wallet_imported"]) THEN <<"--wallet", cfg["wallet_path"].s>> ELSE << >>)

\* nock2.py _build_base_command; it reads the module-level config.
_build_base_command(cfg, include_wallet) ==
    LET client ==
            IF cfg["client_type"] = PyStr("public")
            THEN <<"--client", "public">> \o
                 (IF Truthy(cfg["public_server"]) /\ cfg["public_server"] /= PyStr(DEFAULT_SERVER)
                  THEN <<"--public-grpc-server-addr", cfg["public_server"].s>> ELSE << >>)
            ELSE <<"--client", "private">> \o
                 (IF Truthy(cfg["private_port"]) /\ cfg["private_port"] /= PyStr(DEFAULT_PORT)
                  THEN <<"--private-grpc-server-port", cfg["private_port"].s>> ELSE << >>)
        wallet ==
            IF include_wallet /\ Truthy(cfg["wallet_imported"])
            THEN <<"--wallet", cfg["wallet_path"].s>> ELSE << >>
    IN  <<cfg["wallet_binary"].s>> \o client \o wallet

\* One paragraph of the log view: the colour class, the message template,
\* its string arguments and its text argument.
LogLine(type, fmt, args, txt) == [type |-> type, fmt |-> fmt, args |-> args, txt |-> txt]

\* A log view that shows the last message only (setText in place of append).
append_log_replacing(s, type, fmt, args, txt) ==
    [s EXCEPT !.log = <<LogLine(type, fmt, args, txt)>>]

\* LogArea.append_log: QTextEdit.append adds a paragraph at the end.
append_log(s, type, fmt, args, txt) ==
    [s EXCEPT !.log = Append(@, LogLine(type, fmt, args, txt))]

\* A handler that leaves its message box out.
show_dialog_skipped(s, kind, title) == s

\* QMessageBox.warning / critical / information.
show_dialog(s, kind, title) ==
    [s EXCEPT !.dialogs = Append(@, [kind |-> kind, title |-> title])]

\* Outcomes of the external binary.
Exit(rc, out, err) == [k |-> "exit", rc |-> rc, stdout |-> out, stderr |-> err]

NotFound == [k |-> "notfound", rc |-> 0, stdout |-> << >>, stderr |-> << >>]

Hang == [k |-> "hang", rc |-> 0, stdout |-> << >>, stderr |-> << >>]

\* timeout=None of subprocess.run
NO_TIMEOUT == 0

CHECK_TIMEOUT == 5

IMPORT_TIMEOUT == 60

COMMAND_TIMEOUT == 30

\* What is known of one invocation: the command line, how it ended and the
\* configuration file as it was when the command was started.
SubprocessCall(s, cmd, timeout, o) ==
    [cmd |-> cmd, timeout |-> timeout, outcome |-> o.k, rc |-> o.rc, stdout |-> o.stdout,
     disk |-> s.disk]

\* A runner that starts a command again when it has failed.
subprocess_run_retried(s, cmd, timeout, o) ==
    [s EXCEPT !.calls = IF o.k = "exit" /\ o.rc = 0
                        THEN Append(@, SubprocessCall(s, cmd, timeout, o))
                        ELSE @ \o <<SubprocessCall(s, cmd, timeout, o),
                                    SubprocessCall(s, cmd, timeout, o)>>,
              !.blocked = (o.k = "hang" /\ timeout = NO_TIMEOUT)]

\* subprocess.run(cmd, timeout=...): the invocation is recorded; a binary that
\* never terminates blocks the caller for ever when there is no timeout.
subprocess_run(s, cmd, timeout, o) ==
    [s EXCEPT !.calls = Append(@, SubprocessCall(s, cmd, timeout, o)),
              !.blocked = (o.k = "hang" /\ timeout = NO_TIMEOUT)]

\* A subprocess.run that takes every exit status for success.
RaisedUnchecked(o, timeout, check) ==
    CASE o.k = "notfound" -> "FileNotFoundError"
      [] o.k = "hang" /\ timeout /= NO_TIMEOUT -> "TimeoutExpired"
      [] OTHER -> ""

\* The exception subprocess.run raises, "" for none.
Raised(o, timeout, check) ==
    CASE o.k = "notfound" -> "FileNotFoundError"
      [] o.k = "hang" /\ timeout /= NO_TIMEOUT -> "TimeoutExpired"
      [] o.k = "exit" /\ check /\ o.rc /= 0 -> "CalledProcessError"
      [] OTHER -> ""

\* An exception nothing catches leaves the handler for the event loop.
Escapes(s) == [s EXCEPT !.escaped = TRUE]

\* QFileDialog.getOpenFileName(self, caption, directory, filter) and
\* directory + "/wallet_keys.keys" raise TypeError unless directory is a str.
IsStr(v) == v.py = "str"

\* pathlib: Path(p).parent and Path(p).name of the paths the model uses.
DEFAULT_WALLET == "/home/u/.nockchain/wallet.wallet"

PathParent(p) ==
    CASE p = "/w/a.wallet" -> "/w"
      [] p = "/w/b.wallet" -> "/w"
      [] p = DEFAULT_WALLET -> "/home/u/.nockchain"
      [] p = "/k/my.keys" -> "/k"
      [] OTHER -> "."

PathName(p) ==
    CASE p = "/w/a.wallet" -> "a.wallet"
      [] p = "/w/b.wallet" -> "b.wallet"
      [] p = DEFAULT_WALLET -> "wallet.wallet"
      [] p = "/k/my.keys" -> "my.keys"
      [] OTHER -> p

\* A save that first loads the file again and so takes over what another
\* program wrote there.
_save_config_reloading(s, w) ==
    [s EXCEPT !.config = LoadNock2(s.disk),
              !.disk = SavedFile(LoadNock2(s.disk)),
              !.fileops = Append(@, "write"),
              !.log = Append(@, LogLine("success", "Configuration sauvegardee", << >>, << >>))]

\* nock2.py _save_config: json.dump inside try/except; w tells how the write
\* goes: "ok", "open_fails" (the file is untouched) or "write_fails" (the file
\* was truncated by open and is left without a JSON document).
_save_config(s, w) ==
    IF w = "ok"
    THEN append_log([s EXCEPT !.disk = SavedFile(s.config),
                              !.fileops = Append(@, "write")],
                    "success", "Configuration sauvegardee", << >>, << >>)
    ELSE append_log([s EXCEPT !.disk = IF w = "open_fails" THEN @ ELSE FileOf("invalid"),
                              !.fileops = Append(@, "write_failed")],
                    "error", "Erreur sauvegarde config", <<w>>, << >>)

\* A save that reports success and leaves the file as it was.
save_config_unwritten(s, w) == [s EXCEPT !.fileops = Append(@, "write")]

\* nockwallet-v0.1.1.py save_config: as _save_config, but the outcome goes to
\* the logger and not to the log view.
save_config(s, w) ==
    IF w = "ok"
    THEN [s EXCEPT !.disk = SavedFile(s.config), !.fileops = Append(@, "write")]
    ELSE [s EXCEPT !.disk = IF w = "open_fails" THEN @ ELSE FileOf("invalid"),
                   !.fileops = Append(@, "write_failed")]

\* nock2.py _update_wallet_display
_update_wallet_display(s) ==
    IF Truthy(s.config["wallet_imported"]) /\ Truthy(s.config["wallet_path"])
    THEN [s EXCEPT !.widgets.wallet_path_label = s.config["wallet_path"].s,
                   !.widgets.status_bar = <<"Wallet", PathName(s.config["wallet_path"].s)>>]
    ELSE [s EXCEPT !.widgets.wallet_path_label = "Aucun wallet charge"]

\* nock2.py _check_binary
_check_binary(s, o) ==
    LET cmd == <<s.config["wallet_binary"].s, "--help">>
        Done(s1, e) ==
            CASE e = "FileNotFoundError" ->
                    show_dialog(append_log(s1, "error", "Binaire non trouve", <<cmd[1]>>, << >>),
                                "warning", "Binaire manquant")
              [] e /= "" -> append_log(s1, "error", "Erreur", <<e>>, << >>)
              [] o.rc = 0 -> append_log(s1, "success", "Binaire trouve", <<cmd[1]>>, << >>)
              [] OTHER -> append_log(s1, "warning", "Binaire non fonctionnel", << >>, << >>)
    IN  Done(subprocess_run(s, cmd, CHECK_TIMEOUT, o), Raised(o, CHECK_TIMEOUT, FALSE))

\* self.log_area.append_log(f"$ {' '.join(cmd)}", "command") followed by
\* subprocess.run(cmd, capture_output=True, text=True, timeout=timeout)
run_logged(s, cmd, timeout, o) ==
    subprocess_run(append_log(s, "command", "$", cmd, << >>), cmd, timeout, o)

\* nock2.py _refresh_balance
_refresh_balance(s, o) ==
    LET Height(s3, height) ==
            IF ~height.none /\ height.n /= 0
            THEN append_log(s3, "info", "Hauteur", <<ToString(height.n)>>, << >>) ELSE s3
        Version(s2, wallet_version) ==
            IF ~wallet_version.none /\ wallet_version.s /= << >>
            THEN append_log(s2, "info", "Version", << >>, wallet_version.s) ELSE s2
        Done(s1, e, balance_info) ==
            CASE e = "TimeoutExpired" ->
                    append_log(s1, "error", "Timeout lors de la recuperation du solde",
                               << >>, << >>)
              [] e /= "" -> append_log(s1, "error", "Erreur", <<e>>, << >>)
              [] o.rc /= 0 -> append_log(s1, "error", "Erreur", << >>, extract_error(o.stderr))
              [] balance_info.none ->
                    append_log(s1, "warning", "Impossible de parser le solde", << >>, << >>)
              [] OTHER ->
                    Height(Version(append_log([s1 EXCEPT !.widgets.balance_label =
                                                  [text |-> "formatted",
                                                   formatted |-> balance_info.formatted]],
                                              "success", "Balance", << >>, << >>),
                                   parse_wallet_version(o.stdout)),
                           parse_height(o.stdout))
    IN  IF ~Truthy(s.config["wallet_imported"])
        THEN append_log(s, "warning", "Veuillez charger un wallet d'abord", << >>, << >>)
        ELSE Done(run_logged(s, _build_base_command(s.config, TRUE) \o <<"show-balance">>,
                             COMMAND_TIMEOUT, o),
                  Raised(o, COMMAND_TIMEOUT, FALSE), parse_balance(o.stdout))

\* QTableWidget.setRowCount(n): rows beyond n are dropped, missing rows are
\* added empty.
EmptyRow == [set |-> FALSE, item |-> << >>]

\* A table that only ever grows.
setRowCountGrowing(table, n) ==
    [i \in 1..(IF n < Len(table) THEN Len(table) ELSE n) |->
        IF i <= Len(table) THEN table[i] ELSE EmptyRow]

setRowCount(table, n) ==
    [i \in 1..n |-> IF i <= Len(table) THEN table[i] ELSE EmptyRow]

\* nock2.py _load_notes
_load_notes(s, watch_only, o) ==
    LET Filled(sized, notes) == [i \in DOMAIN sized |-> [set |-> TRUE, item |-> notes[i]]]
        Done(s1, e, notes) ==
            CASE e = "TimeoutExpired" ->
                    append_log(s1, "error", "Timeout lors du chargement des notes",
                               << >>, << >>)
              [] e /= "" -> append_log(s1, "error", "Erreur", <<e>>, << >>)
              [] o.rc /= 0 -> append_log(s1, "error", "Erreur", << >>, extract_error(o.stderr))
              [] notes /= << >> ->
                    append_log([s1 EXCEPT !.widgets.notes_table =
                                   Filled(setRowCount(@, Len(notes)), notes)],
                               "success", "note(s) trouvee(s)", <<ToString(Len(notes))>>, << >>)
              [] OTHER ->
                    append_log([s1 EXCEPT !.widgets.notes_table = setRowCount(@, Len(notes))],
                               "info", "Aucune note trouvee", << >>, << >>)
    IN  IF ~Truthy(s.config["wallet_imported"]) THEN s
        ELSE Done(run_logged(s, _build_base_command(s.config, TRUE) \o <<"list-notes">> \o
                                (IF watch_only THEN <<"--include-watch-only">> ELSE << >>),
                             COMMAND_TIMEOUT, o),
                  Raised(o, COMMAND_TIMEOUT, FALSE), parse_notes(o.stdout))

\* nock2.py _get_block; height is the value of the spin box.
_get_block(s, height, o) ==
    LET Done(s1, e) ==
            CASE e /= "" -> append_log(s1, "error", "Erreur", <<e>>, << >>)
              [] o.rc /= 0 -> append_log(s1, "error", "Erreur", << >>, extract_error(o.stderr))
              [] OTHER ->
                    append_log(append_log(s1, "success", "Bloc", <<ToString(height)>>, << >>),
                               "info", "stdout", << >>, o.stdout)
    IN  IF height <= 0 THEN show_dialog(s, "warning", "Attention")
        ELSE Done(run_logged(s, _build_base_command(s.config, FALSE) \o
                                <<"get-block", "--height", ToString(height)>>,
                             COMMAND_TIMEOUT, o),
                  Raised(o, COMMAND_TIMEOUT, FALSE))

\* A selection that stores what the dialog returned even when it was cancelled.
_select_wallet_cancelled(s, wallet_file, exists, w, o) ==
    _refresh_balance([s EXCEPT !.config["wallet_path"] = PyStr(wallet_file),
                               !.config["wallet_imported"] = PyBool(TRUE)], o)

\* A selection that asks for the balance first and writes the file afterwards.
_select_wallet_saving_last(s, wallet_file, exists, w, o) ==
    IF wallet_file = "" \/ ~exists \/ ~IsStr(s.config["last_used_directory"]) THEN s
    ELSE _save_config(
             _refresh_balance(
                 append_log([s EXCEPT !.config["wallet_path"] = PyStr(wallet_file),
                                      !.config["wallet_imported"] = PyBool(TRUE),
                                      !.config["last_used_directory"] =
                                          PyStr(PathParent(wallet_file)),
                                      !.widgets.wallet_path_label = wallet_file],
                            "success", "Wallet charge", <<PathName(wallet_file)>>, << >>),
                 o),
             w)

\* nock2.py _select_wallet: wallet_file is what the file dialog returned ("" when
\* cancelled), exists the answer of Path(wallet_file).exists().
_select_wallet(s, wallet_file, exists, w, o) ==
    IF ~IsStr(s.config["last_used_directory"]) THEN Escapes(s)
    ELSE IF wallet_file = "" THEN s
    ELSE IF ~exists
    THEN show_dialog(append_log(s, "error", "Erreur chargement wallet",
                                <<"FileNotFoundError">>, << >>),
                     "critical", "Erreur")
    ELSE
    LET s1 == [s EXCEPT !.config["wallet_path"] = PyStr(wallet_file),
                        !.config["wallet_imported"] = PyBool(TRUE),
                        !.config["last_used_directory"] = PyStr(PathParent(wallet_file))]
        s2 == _save_config(s1, w)
        s3 == [s2 EXCEPT !.widgets.wallet_path_label = wallet_file,
                         !.widgets.status_bar = <<"Wallet", PathName(wallet_file)>>]
        s4 == append_log(s3, "success", "Wallet charge", <<PathName(wallet_file)>>, << >>)
    IN  _refresh_balance(s4, o)

\* nock2.py _import_wallet: source_file is what the file dialog returned,
\* default_exists the answer of default_wallet.exists() after the import.
_import_wallet(s, source_file, o, default_exists, w) ==
    LET Imported(s3) ==
            show_dialog(append_log([s3 EXCEPT !.widgets.wallet_path_label = DEFAULT_WALLET,
                                              !.widgets.status_bar =
                                                  <<"Wallet", PathName(DEFAULT_WALLET)>>],
                                   "success", "Wallet importe",
                                   <<PathName(DEFAULT_WALLET)>>, << >>),
                        "information", "Succes")
        Done(s1, e) ==
            CASE e /= "" ->
                    show_dialog(append_log(s1, "error", "Erreur", <<e>>, << >>),
                                "critical", "Erreur")
              [] o.rc /= 0 ->
                    show_dialog(append_log(s1, "error", "Erreur", << >>,
                                           extract_error(o.stderr)),
                                "critical", "Erreur")
              [] default_exists ->
                    Imported(_save_config(
                        [s1 EXCEPT !.config["wallet_path"] = PyStr(DEFAULT_WALLET),
                                   !.config["wallet_imported"] = PyBool(TRUE),
                                   !.config["last_used_directory"] =
                                       PyStr(PathParent(DEFAULT_WALLET))], w))
              [] OTHER ->
                    append_log(s1, "warning", "Import reussi mais aucun wallet trouve",
                               << >>, << >>)
    IN  IF ~IsStr(s.config["last_used_directory"]) THEN Escapes(s)
        ELSE IF source_file = "" THEN s
        ELSE Done(run_logged(s, <<s.config["wallet_binary"].s, "import-keys", "--file",
                                  source_file>> \o
                                (IF Truthy(s.config["wallet_imported"])
                                    /\ Truthy(s.config["wallet_path"])
                                 THEN <<"--wallet", s.config["wallet_path"].s>> ELSE << >>),
                             IMPORT_TIMEOUT, o),
                  Raised(o, IMPORT_TIMEOUT, FALSE))

\* f"{n:,}": the decimal digits of n >= 0 in groups of three.
RECURSIVE Thousands(_)
Thousands(n) ==
    LET D(d) == CHOOSE c \in Digit : DigitValue(c) = d
        Three(r) == <<D(r \div 100), D((r \div 10) % 10), D(r % 10)>>
    IN  IF n < 10 THEN <<D(n)>>
        ELSE IF n < 100 THEN <<D(n \div 10), D(n % 10)>>
        ELSE IF n < 1000 THEN Three(n)
        ELSE Thousands(n \div 1000) \o <<",">> \o Three(n % 1000)

\* nockwallet-v0.1.1.py extract_success_message: the message, "" for None.
extract_success_message_v011(output) ==
    IF Contains(output, <<"C", "o", "m", "m", "a", "n", "d", " ", "e", "x", "e", "c", "u", "t", "e", "d", " ", "s", "u", "c", "c", "e", "s", "s", "f", "u", "l", "l", "y">>)
    THEN "Commande executee avec succes"
    ELSE IF Contains(Lower(output), <<"s", "u", "c", "c", "e", "s", "s", "f", "u", "l", "l", "y">>)
    THEN "Operation reussie"
    ELSE ""

\* skip_patterns of clean_output, looked for in the line as it is.
CLEAN_SKIP ==
    {<<"k", "e", "r", "n", "e", "l", ":", ":", "b", "o", "o", "t">>,
     <<"N", "o", "c", "k", "A", "p", "p", " ", "b", "o", "o", "t", " ", "c", "l", "i">>,
     <<"b", "u", "i", "l", "d", "-", "h", "a", "s", "h">>,
     <<"n", "o", "c", "k", "a", "p", "p", ":", " ", "N", "o", "c", "k", "a", "p", "p", " ", "s", "a", "v", "e", " ", "i", "n", "t", "e", "r", "v", "a", "l">>,
     <<"C", "o", "m", "m", "a", "n", "d", " ", "r", "e", "q", "u", "i", "r", "e", "s", " ", "s", "y", "n", "c", "i", "n", "g">>,
     <<"C", "o", "n", "n", "e", "c", "t", "e", "d", " ", "t", "o", " ", "p", "u", "b", "l", "i", "c">>,
     <<"R", "e", "c", "e", "i", "v", "e", "d", " ", "b", "a", "l", "a", "n", "c", "e", " ", "u", "p", "d", "a", "t", "e">>}

\* re.sub(r'^I \(\d+:\d+:\d+\)\s*', '', line)
StripTime(line) ==
    LET At(j, c) == j <= Len(line) /\ line[j] = c
        Rest(j3) ==
            IF j3 > 0 /\ At(j3, ")")
            THEN SubSeq(line, RunEnd(line, j3 + 1, Space), Len(line)) ELSE line
        Field(j, sep) ==
            IF j > 0 /\ At(j, sep) /\ RunEnd(line, j + 1, Digit) > j + 1
            THEN RunEnd(line, j + 1, Digit) ELSE 0
        Hours(j1) == Rest(Field(Field(IF j1 > 4 THEN j1 ELSE 0, ":"), ":"))
    IN  IF MatchLit(line, 1, <<"I", " ", "(">>) THEN Hours(RunEnd(line, 4, Digit)) ELSE line

\* re.sub(r'^\[.*?\]\s*', '', line)
StripTag(line) ==
    LET Rest(close) ==
            IF close = {} THEN line
            ELSE SubSeq(line, RunEnd(line, Min(close) + 1, Space), Len(line))
    IN  IF line /= << >> /\ line[1] = "[" THEN Rest({j \in 2..Len(line) : line[j] = "]"})
        ELSE line

\* nockwallet-v0.1.1.py clean_output
clean_output(output) ==
    LET Cleaned(lines) == [i \in DOMAIN lines |-> Strip(StripTag(StripTime(lines[i])))]
        Kept(line) == Strip(line) /= << >> /\ \A x \in CLEAN_SKIP : ~Contains(line, x)
        NotEmpty(line) == line /= << >>
    IN  Join(SelectSeq(Cleaned(SelectSeq(Split(output), Kept)), NotEmpty))

\* nockwallet-v0.1.1.py _refresh_balance
_refresh_balance_v011(s, o) ==
    LET Message(s7, msg) ==
            IF msg /= "" THEN append_log(s7, "success", msg, << >>, << >>) ELSE s7
        Hash(s6, block_hash) ==
            IF ~block_hash.none /\ block_hash.s /= << >>
            THEN append_log(s6, "info", "Bloc", << >>,
                            SubSeq(block_hash.s, 1, Min({8, Len(block_hash.s)}))
                            \o <<".", ".", ".">>
                            \o SubSeq(block_hash.s, Max({1, Len(block_hash.s) - 7}),
                                      Len(block_hash.s)))
            ELSE s6
        Height(s5, height) ==
            IF ~height.none /\ height.n /= 0
            THEN append_log(s5, "info", "Hauteur", << >>, Thousands(height.n)) ELSE s5
        Version(s4, wallet_version) ==
            IF ~wallet_version.none /\ wallet_version.s /= << >>
            THEN append_log(s4, "info", "Version wallet", << >>, wallet_version.s) ELSE s4
        Notes(s3, num_notes) ==
            IF ~num_notes.none
            THEN append_log(s3, "info", "Nombre de notes", <<ToString(num_notes.n)>>, << >>)
            ELSE s3
        Balance(s2, formatted) ==
            append_log([s2 EXCEPT !.widgets.balance_label =
                           [text |-> "formatted", formatted |-> formatted]],
                       "success", "Balance", << >>, formatted)
        Done(s1, e, balance_info) ==
            CASE e = "TimeoutExpired" ->
                    append_log(s1, "error", "Timeout lors de la recuperation du solde",
                               << >>, << >>)
              [] e /= "" -> append_log(s1, "error", "Erreur", <<e>>, << >>)
              [] o.rc /= 0 ->
                    append_log(s1, "error", "Erreur", << >>, extract_error_v011(o.stderr))
              [] balance_info.none ->
                    append_log(append_log(s1, "warning", "Impossible de parser le solde",
                                          << >>, << >>),
                               "info", "clean", << >>, clean_output(o.stdout))
              [] OTHER ->
                    Message(Hash(Height(Version(Notes(
                                Balance(s1, Thousands(balance_info.n)
                                            \o <<" ", "n", "i", "c", "k", "s">>),
                                parse_number_of_notes(o.stdout)),
                                parse_wallet_version_v011(o.stdout)),
                                parse_height_v011(o.stdout)),
                                parse_block_hash(o.stdout)),
                            extract_success_message_v011(o.stdout))
    IN  IF ~Truthy(s.config["wallet_imported"])
        THEN append_log(s, "warning", "Veuillez importer un wallet d'abord", << >>, << >>)
        ELSE Done(run_logged(s, _build_base_command_v011(s.config) \o <<"show-balance">>,
                             COMMAND_TIMEOUT, o),
                  Raised(o, COMMAND_TIMEOUT, FALSE), parse_balance_v011(o.stdout))

\* Path.home() / ".nockchain" / "wallet.dat" and Path.home() / "wallet.wallet"
DEFAULT_WALLET_DAT == "/home/u/.nockchain/wallet.dat"

ALT_WALLET == "/home/u/wallet.wallet"

\* An import that asks for the balance first and writes the file afterwards.
_import_wallet_v011_saving_last(s, source_file, o, default_exists, alt_exists, w, ob) ==
    IF source_file = "" THEN s
    ELSE IF Raised(o, IMPORT_TIMEOUT, TRUE) /= ""
    THEN run_logged(s, _build_base_command_v011(s.config) \o
                       <<"import-keys", "--file", source_file>>, IMPORT_TIMEOUT, o)
    ELSE save_config(
             _refresh_balance_v011(
                 [run_logged(s, _build_base_command_v011(s.config) \o
                                <<"import-keys", "--file", source_file>>, IMPORT_TIMEOUT, o)
                     EXCEPT !.config["wallet_imported"] = PyBool(TRUE)],
                 ob),
             w)

\* An import that takes the wallet for imported before the command has run.
_import_wallet_v011_eager(s, source_file, o, default_exists, alt_exists, w, ob) ==
    IF source_file = "" THEN s
    ELSE run_logged(save_config([s EXCEPT !.config["wallet_imported"] = PyBool(TRUE)], w),
                    _build_base_command_v011(s.config) \o
                    <<"import-keys", "--file", source_file>>,
                    IMPORT_TIMEOUT, o)

\* nockwallet-v0.1.1.py _import_wallet: source_file is what the file dialog
\* returned, default_exists and alt_exists the answers of the two exists()
\* calls, w how the write goes and ob how show-balance ends. The class has no
\* method _load_notes: the call raises AttributeError, which the handler's
\* except Exception logs.
_import_wallet_v011(s, source_file, o, default_exists, alt_exists, w, ob) ==
    LET NoLoadNotes(s6) == append_log(s6, "error", "Erreur", <<"AttributeError">>, << >>)
        Found(s3, wallet, name) ==
            NoLoadNotes(_refresh_balance_v011(
                append_log([save_config([s3 EXCEPT !.config["wallet_path"] = PyStr(wallet),
                                                   !.config["wallet_imported"] = PyBool(TRUE)],
                                        w)
                               EXCEPT !.widgets.wallet_path_label = wallet,
                                      !.widgets.status_bar = <<"Wallet", name>>],
                           "success", "Wallet trouve", <<wallet>>, << >>),
                ob))
        Default(s3) ==
            NoLoadNotes(_refresh_balance_v011(
                append_log([save_config([s3 EXCEPT !.config["wallet_imported"] = PyBool(TRUE)],
                                        w)
                               EXCEPT !.widgets.wallet_path_label = "Wallet par defaut"],
                           "success", "Utilisation du wallet par defaut", << >>, << >>),
                ob))
        Imported(s3) ==
            CASE default_exists -> Found(s3, DEFAULT_WALLET_DAT, "wallet.dat")
              [] alt_exists -> Found(s3, ALT_WALLET, "wallet.wallet")
              [] OTHER -> Default(s3)
        Message(s2, msg) ==
            Imported(append_log(s2, "success", IF msg /= "" THEN msg ELSE "Import reussi",
                                << >>, << >>))
        Done(s2, e) ==
            CASE e = "TimeoutExpired" ->
                    append_log(s2, "error", "Timeout lors de l'import", << >>, << >>)
              [] e /= "" -> append_log(s2, "error", "Erreur", <<e>>, << >>)
              [] o.rc /= 0 ->
                    show_dialog(append_log(s2, "error", "Erreur", << >>,
                                           extract_error_v011(o.stderr)),
                                "critical", "Erreur")
              [] OTHER -> Message(s2, extract_success_message_v011(o.stdout))
    IN  IF source_file = "" THEN s
        ELSE Done(run_logged(append_log(s, "info", "Import depuis",
                                        <<PathName(source_file)>>, << >>),
                             _build_base_command_v011(s.config) \o
                             <<"import-keys", "--file", source_file>>,
                             IMPORT_TIMEOUT, o),
                  Raised(o, IMPORT_TIMEOUT, FALSE))

\* nock2.py _export_wallet: output_file is what the save dialog returned.
_export_wallet(s, output_file, o) ==
    LET Done(s1, e) ==
            CASE e /= "" ->
                    show_dialog(append_log(s1, "error", "Erreur", <<e>>, << >>),
                                "critical", "Erreur")
              [] o.rc /= 0 ->
                    show_dialog(append_log(s1, "error", "Erreur", << >>,
                                           extract_error(o.stderr)),
                                "critical", "Erreur")
              [] OTHER ->
                    show_dialog(append_log(s1, "success", "Export reussi",
                                           <<PathName(output_file)>>, << >>),
                                "information", "Succes")
    IN  IF ~Truthy(s.config["wallet_imported"]) THEN show_dialog(s, "warning", "Attention")
        ELSE IF ~IsStr(s.config["last_used_directory"]) THEN Escapes(s)
        ELSE IF output_file = "" THEN s
        ELSE Done(run_logged(s, <<s.config["wallet_binary"].s, "export-keys",
                                  "--wallet", s.config["wallet_path"].s,
                                  "--output", output_file>>,
                             COMMAND_TIMEOUT, o),
                  Raised(o, COMMAND_TIMEOUT, FALSE))

\* nock2.py _on_client_type_changed: the slot of both radio buttons.
_on_client_type_changed(s) ==
    [s EXCEPT !.widgets.public_server_enabled = (s.widgets.client_radio = "public"),
              !.widgets.private_port_enabled = (s.widgets.client_radio /= "public")]

\* nock2.py _browse_binary: binary_file is what the file dialog returned.
_browse_binary(s, binary_file) ==
    IF binary_file = "" THEN s
    ELSE [s EXCEPT !.widgets.binary_path_input = binary_file]

\* nock2.py _save_params: the four fields of the parameter tab are stored,
\* the file is written and the binary is checked again.
_save_params(s, public_server, private_port, w, o) ==
    LET s1 == [s EXCEPT !.config["wallet_binary"] = PyStr(s.widgets.binary_path_input),
                        !.config["client_type"] =
                            PyStr(IF s.widgets.client_radio = "public"
                                  THEN "public" ELSE "private"),
                        !.config["public_server"] = PyStr(public_server),
                        !.config["private_port"] = PyStr(private_port)]
        s2 == append_log(_save_config(s1, w), "success", "Parametres sauvegardes",
                         << >>, << >>)
    IN  _check_binary(show_dialog(s2, "information", "Succes"), o)

-----------------------------------------------------------------------------
(* Sending a transaction *)

\* str.split(sep) for a one-character sep.
RECURSIVE SplitOn(_, _)
SplitOn(t, sep) ==
    LET CutAt(first) ==
            <<SubSeq(t, 1, first - 1)>> \o SplitOn(SubSeq(t, first + 1, Len(t)), sep)
        Cut(at) == IF at = {} THEN <<t>> ELSE CutAt(Min(at))
    IN  Cut({i \in DOMAIN t : t[i] = sep})

RECURSIVE Pow10(_)
Pow10(n) == IF n = 0 THEN 1 ELSE 10 * Pow10(n - 1)

\* float(amount) for the decimal notations [sign] digits [. digits], inf and
\* nan: a value num/den, or the reason why there is none.
float_of(t) ==
    LET Value(kind, neg, digits, frac) ==
            [kind |-> kind, neg |-> neg,
             num |-> IF kind = "finite" THEN IntValue(digits) ELSE 0,
             den |-> IF kind = "finite" THEN Pow10(Len(frac)) ELSE 1]
        Float(neg, body, parts, frac) ==
            CASE body \in {<<"i", "n", "f">>, <<"i", "n", "f", "i", "n", "i", "t", "y">>} ->
                    Value("inf", neg, << >>, << >>)
              [] body = <<"n", "a", "n">> -> Value("nan", neg, << >>, << >>)
              [] Len(parts) <= 2 /\ IntOk(parts[1] \o frac) ->
                    Value("finite", neg, parts[1] \o frac, frac)
              [] OTHER -> Value("error", neg, << >>, << >>)
        Parts(neg, body, parts) ==
            Float(neg, Lower(body), parts, IF Len(parts) = 2 THEN parts[2] ELSE << >>)
        Body(neg, body) == Parts(neg, body, SplitOn(body, "."))
        Signed(signed) == Body(signed /\ t[1] = "-", IF signed THEN Tail(t) ELSE t)
    IN  Signed(t /= << >> /\ t[1] \in {"-", "+"})

\* int(float(amount) * 65536): truncation towards zero.
NicksOf(f) ==
    IF f.neg THEN 0 - ((f.num * NICKS_PER_NOCK) \div f.den)
    ELSE (f.num * NICKS_PER_NOCK) \div f.den

TX_ID_LEN == 44

NoError == [fmt |-> "", txt |-> << >>]

\* The dict send_funds returns; NoError stands for a dict without "error".
TxResult(success, tx_id_none, tx_id, tx_file, error) ==
    [success |-> success, tx_id_none |-> tx_id_none, tx_id |-> tx_id,
     tx_file |-> tx_file, has_error |-> error /= NoError, error |-> error]

\* for line in lines: if P(line): ... break -- the index of the first line
\* that satisfies P, 0 when the loop ends without break.
FirstWhere(lines, P(_)) ==
    LET First(hits) == IF hits = {} THEN 0 ELSE Min(hits)
    IN  First({i \in DOMAIN lines : P(lines[i])})

\* nock2.py TransactionEngine.send_funds: create-tx, then send-tx on the first
\* line of its output that ends in ".tx"; both without timeout and with
\* check=True.  The result is the state and the dict returned.
send_funds(s, recipient, amount_nicks, note_names, fee, o1, o2) ==
    LET Failed(e, o) ==
            IF e = "CalledProcessError"
            THEN [fmt |-> "stderr or stdout",
                  txt |-> IF Strip(o.stderr) /= << >> THEN Strip(o.stderr)
                          ELSE Strip(o.stdout)]
            ELSE [fmt |-> e, txt |-> << >>]
        Line(lines, at) == IF at = 0 THEN << >> ELSE Strip(lines[at])
        Sent(s2, e2, tx_file, send_lines, id_at) ==
            CASE s2.blocked ->
                    [s |-> s2, result |-> TxResult(FALSE, TRUE, << >>, tx_file, NoError)]
              [] e2 /= "" ->
                    [s |-> s2,
                     result |-> TxResult(FALSE, TRUE, << >>, tx_file, Failed(e2, o2))]
              [] OTHER ->
                    [s |-> s2,
                     result |-> TxResult(TRUE, id_at = 0, Line(send_lines, id_at), tx_file,
                                         NoError)]
        SendTx(s1, tx_file, send_lines) ==
            Sent(subprocess_run(s1, <<tx_engine, "send-tx", Str(tx_file)>>, NO_TIMEOUT, o2),
                 Raised(o2, NO_TIMEOUT, TRUE), tx_file, send_lines,
                 FirstWhere(send_lines, LAMBDA line : Len(line) = TX_ID_LEN))
        Created(s1, e1, tx_file) ==
            CASE s1.blocked ->
                    [s |-> s1, result |-> TxResult(FALSE, TRUE, << >>, << >>, NoError)]
              [] e1 /= "" ->
                    [s |-> s1,
                     result |-> TxResult(FALSE, TRUE, << >>, << >>, Failed(e1, o1))]
              [] tx_file = << >> ->
                    [s |-> s1,
                     result |-> TxResult(FALSE, TRUE, << >>, << >>,
                                         [fmt |-> "Aucun fichier de transaction genere",
                                          txt |-> << >>])]
              [] OTHER -> SendTx(s1, tx_file, splitlines(o2.stdout))
        CreateTx(cmd, lines) ==
            Created(subprocess_run(s, cmd, NO_TIMEOUT, o1), Raised(o1, NO_TIMEOUT, TRUE),
                    Line(lines, FirstWhere(lines,
                                           LAMBDA line : EndsWith(line, <<".", "t", "x">>))))
    IN  CreateTx(<<tx_engine, "create-tx", "--recipient",
                   recipient \o ":" \o ToString(amount_nicks), "--fee", ToString(fee)>> \o
                 (IF note_names /= << >>
                  THEN <<"--names", "[" \o Str(JoinWith(note_names, " ")) \o "]">>
                  ELSE << >>),
                 splitlines(o1.stdout))

\* nock2.py _add_to_history: insertRow comes first; tx_id[:8] raises TypeError
\* for tx_id = None and leaves the new row empty.
EmptyHistoryRow == [set |-> FALSE, id |-> << >>, amount |-> << >>, status |-> ""]

_add_to_history(s, tx_id_none, tx_id, amount, status) ==
    LET Inserted(row, inserted) ==
            IF tx_id_none THEN [s |-> inserted, raised |-> "TypeError"]
            ELSE [s |-> [inserted EXCEPT !.widgets.tx_history[row] =
                            [set |-> TRUE,
                             id |-> SubSeq(tx_id, 1, IF Len(tx_id) < 8 THEN Len(tx_id) ELSE 8)
                                    \o <<".", ".", ".">>,
                             amount |-> amount, status |-> status]],
                  raised |-> ""]
    IN  Inserted(Len(s.widgets.tx_history) + 1,
                 [s EXCEPT !.widgets.tx_history = Append(@, EmptyHistoryRow)])

TxStatus(fmt, txt) == [fmt |-> fmt, txt |-> txt]

\* nock2.py _send_transaction: the texts of the form fields, the fee spin box
\* and the outcomes of the two commands.
_send_transaction(s, recipient_text, amount_text, notes_text, fee, o1, o2) ==
    LET Unexpected(s3, e) ==
            show_dialog(append_log(s3, "error", "Erreur inattendue", <<e>>, << >>),
                        "critical", "Erreur")
        Failure(s2, error) ==
            show_dialog(append_log([s2 EXCEPT !.widgets.tx_status =
                                                  TxStatus("Erreur", error.txt)],
                                   "error", "Erreur", <<error.fmt>>, error.txt),
                        "critical", "Erreur")
        Added(added) ==
            IF added.raised /= "" THEN Unexpected(added.s, added.raised)
            ELSE show_dialog(added.s, "information", "Succes")
        Success(s2, result, amount) ==
            Added(_add_to_history(
                      append_log([s2 EXCEPT !.widgets.tx_status =
                                                TxStatus("Transaction envoyee", result.tx_id)],
                                 "success", "Transaction reussie", << >>, result.tx_id),
                      result.tx_id_none, result.tx_id, amount, "Envoye"))
        Sent(sent, amount) ==
            CASE sent.s.blocked -> sent.s
              [] sent.result.success -> Success(sent.s, sent.result, amount)
              [] OTHER ->
                    Failure(sent.s, IF sent.result.has_error THEN sent.result.error
                                    ELSE [fmt |-> "Erreur inconnue", txt |-> << >>])
        NoteList(notes, pieces) ==
            IF notes /= << >> THEN [i \in DOMAIN pieces |-> Strip(pieces[i])] ELSE << >>
        Checked(recipient, amount, notes, f) ==
            CASE recipient = "" \/ amount = << >> -> show_dialog(s, "warning", "Erreur")
              [] f.kind \in {"error", "nan"} -> show_dialog(s, "critical", "Erreur")
              [] f.kind = "inf" -> Unexpected(s, "OverflowError")
              [] OTHER ->
                    Sent(send_funds([append_log(s, "info", "Envoi de", <<recipient>>, amount)
                                        EXCEPT !.widgets.tx_status =
                                                   TxStatus("Envoi en cours...", << >>)],
                                    recipient, NicksOf(f),
                                    NoteList(notes, SplitOn(notes, ",")), fee, o1, o2),
                         amount)
        Fields(recipient, amount, notes) == Checked(recipient, amount, notes, float_of(amount))
    IN  Fields(Str(Strip(recipient_text)), Strip(amount_text), Strip(notes_text))

-----------------------------------------------------------------------------
(* The running program *)

\* The widgets as init_ui builds them from the loaded configuration.
InitWidgets(cfg) ==
    [wallet_path_label |-> "Aucun wallet charge",
     status_bar |-> <<"Pret">>,
     balance_label |-> [text |-> "Chargement...", formatted |-> NoBalance.formatted],
     tx_status |-> TxStatus("Pret a envoyer une transaction", << >>),
     notes_table |-> << >>,
     tx_history |-> << >>,
     binary_path_input |-> cfg["wallet_binary"].s,
     client_radio |-> IF cfg["client_type"] = PyStr("public") THEN "public"
                      ELSE IF cfg["client_type"] = PyStr("private") THEN "private"
                      ELSE "none",
     public_server_enabled |-> TRUE,
     private_port_enabled |-> TRUE]

\* The state a handler starts from: what it shows and calls is counted anew.
Begin ==
    [config |-> config, disk |-> disk, log |-> log, widgets |-> widgets,
     dialogs |-> << >>, calls |-> << >>, fileops |-> << >>,
     escaped |-> FALSE, blocked |-> FALSE]

\* Module load and NockchainWalletGUI.__init__: the configuration is loaded
\* from file f, init_ui builds the widgets and logs its line, _check_binary runs.
Started(f, o) ==
    LET Loaded(cfg) ==
            [config |-> cfg, disk |-> f, log |-> << >>, widgets |-> InitWidgets(cfg),
             dialogs |-> << >>, calls |-> << >>, fileops |-> LoadReads(f),
             escaped |-> FALSE, blocked |-> FALSE]
    IN  _check_binary(
            _update_wallet_display(
                append_log(_on_client_type_changed(Loaded(Load("nock2", f))),
                           "success", "Interface Nockchain Wallet initialisee",
                           << >>, << >>)),
            o)

\* The handler named `name` ran from the current state and left s.
Ran(name, s) ==
    /\ config' = s.config
    /\ disk' = s.disk
    /\ log' = s.log
    /\ widgets' = s.widgets
    /\ dialogs' = s.dialogs
    /\ calls' = s.calls
    /\ fileops' = s.fileops
    /\ escaped' = s.escaped
    /\ blocked' = s.blocked
    /\ action' = name
    /\ log_mark' = Len(log)
    /\ UNCHANGED <<app, tx_engine, text, ret, inflight>>

\* The record of a call of a side-effect-free function: its name, argument,
\* the configuration it ran under and what it returned.
NoCall == [fn |-> "", arg |-> << >>, cfg |-> << >>, value |-> << >>]

Call(fn, arg, cfg, value) == [fn |-> fn, arg |-> arg, cfg |-> cfg, value |-> value]

\* Longest log a handler may start from.
MaxLog == 3

\* The event loop hands the next event to a handler: the previous handler
\* has returned and the window is open.
Running == app = "nock2" /\ ~blocked /\ ~escaped

Idle == Running /\ Len(log) < MaxLog

STDERR_ERROR == <<"e", "r", "r", "o", "r", ":", " ", "n", "o", " ", "w", "a", "l", "l", "e", "t", "\n">>

BALANCE_FULL == <<"T", "o", "t", "a", "l", ":", " ", "9", "8", ",", "3", "0", "4", " ", "n", "i", "c", "k", "s", " ", "A", "v", "a", "i", "l", "a", "b", "l", "e", ":", " ", "5", "1", "2", " ", "n", "i", "c", "k", "s", " ", "V", "e", "r", "s", "i", "o", "n", ":", " ", "1", ".", "2", ".", "3", " ", "H", "e", "i", "g", "h", "t", ":", " ", "1", ",", "0", "2", "4">>

BALANCE_NONE == <<"H", "e", "i", "g", "h", "t", ":", " ", "7">>

HEX40 == <<"0", "1", "2", "3", "4", "5", "6", "7", "8", "9", "a", "b", "c", "d", "e", "f", "0", "1", "2", "3", "4", "5", "6", "7", "8", "9", "a", "b", "c", "d", "e", "f", "0", "1", "2", "3", "4", "5", "6", "7">>

NOTES_TWO == HEX40 \o <<"\n", " ">> \o HEX40 \o <<"f", "f">>

BLOCK_TEXT == <<"b", "l", "o", "c", "k", " ", "7">>

TX_FILE_OUT == <<"t", "x", "/", "a", ".", "t", "x", "\n">>

TX_ID_OUT == <<"o", "k", "\n">> \o HEX40 \o <<"a", "b", "c", "d">>

NO_ID_OUT == <<"s", "e", "n", "t">>

Failures == {NotFound, Hang, Exit(1, << >>, STDERR_ERROR)}

CheckOutcomes == {NotFound, Hang, Exit(0, << >>, << >>), Exit(1, << >>, << >>)}

BalanceOutcomes == Failures \cup {Exit(0, BALANCE_FULL, << >>), Exit(0, BALANCE_NONE, << >>)}

NotesOutcomes == Failures \cup {Exit(0, NOTES_TWO, << >>), Exit(0, << >>, << >>)}

BlockOutcomes == Failures \cup {Exit(0, BLOCK_TEXT, << >>)}

KeysOutcomes == Failures \cup {Exit(0, << >>, << >>)}

TxFileCreated == Exit(0, TX_FILE_OUT, << >>)

CreateTxOutcomes == Failures \cup {TxFileCreated, Exit(0, << >>, << >>)}

SendTxOutcomes == Failures \cup {Exit(0, TX_ID_OUT, << >>), Exit(0, NO_ID_OUT, << >>)}

WriteOutcomes == {"ok", "open_fails", "write_fails"}

WALLET_FILE == "/w/a.wallet"

KEYS_FILE == "/k/my.keys"

\* A JSON object with the given members.
Members(keys, Value(_)) == [k \in keys |-> Value(k)]

\* Files the program may find at start: none, no JSON, an object with some
\* keys, an object whose last_used_directory is no string, an array of pairs.
StartFiles ==
    {FileAbsent,
     FileOf("invalid"),
     FileObject(Members({"wallet_path", "wallet_imported", "client_type", "private_port"},
                        LAMBDA k : CASE k = "wallet_path" -> JString("/w/b.wallet")
                                     [] k = "wallet_imported" -> JTrue
                                     [] k = "client_type" -> JString("private")
                                     [] OTHER -> JString("9090"))),
     FileObject(Members({"wallet_path", "wallet_imported", "last_used_directory"},
                        LAMBDA k : CASE k = "wallet_path" -> JString("/w/b.wallet")
                                     [] k = "wallet_imported" -> JTrue
                                     [] OTHER -> JFalse)),
     FileArray(<<Pair("wallet_binary", JString("/opt/nw")), NoPair>>)}

\* nock2.py has started with file f on disk and outcome o of the binary check.
Start(f, o) ==
    LET s == Started(f, o)
    IN  /\ app = "nock2"
        /\ config = s.config
        /\ disk = s.disk
        /\ tx_engine = s.config["wallet_binary"].s
        /\ log = s.log
        /\ widgets = s.widgets
        /\ dialogs = s.dialogs
        /\ calls = s.calls
        /\ fileops = s.fileops
        /\ escaped = s.escaped
        /\ blocked = s.blocked
        /\ action = "__init__"
        /\ log_mark = 0
        /\ text = << >>
        /\ ret = NoCall
        /\ inflight = << >>

Init == \E f \in StartFiles, o \in CheckOutcomes : Start(f, o)

RefreshBalance ==
    /\ Idle
    /\ \E o \in BalanceOutcomes : Ran("_refresh_balance", _refresh_balance(Begin, o))

LoadNotes ==
    /\ Idle
    /\ \E watch_only \in BOOLEAN, o \in NotesOutcomes :
           Ran("_load_notes", _load_notes(Begin, watch_only, o))

GetBlock ==
    /\ Idle
    /\ \E height \in {0, 7}, o \in BlockOutcomes :
           Ran("_get_block", _get_block(Begin, height, o))

\* The file dialog is cancelled, names a file that is gone, or names a wallet;
\* the write and the command have an outcome only when they happen.
SelectWallet ==
    /\ Idle
    /\ \E wallet_file \in {"", WALLET_FILE}, exists \in BOOLEAN,
          w \in WriteOutcomes, o \in BalanceOutcomes :
           /\ (wallet_file = "" \/ ~exists) => (w = "ok" /\ o = NotFound)
           /\ wallet_file = "" => exists
           /\ Ran("_select_wallet", _select_wallet(Begin, wallet_file, exists, w, o))

ImportWallet ==
    /\ Idle
    /\ \E source_file \in {"", KEYS_FILE}, o \in KeysOutcomes,
          default_exists \in BOOLEAN, w \in WriteOutcomes :
           /\ source_file = "" => o = NotFound
           /\ (o \in Failures) => default_exists
           /\ (o \in Failures \/ ~default_exists) => w = "ok"
           /\ Ran("_import_wallet", _import_wallet(Begin, source_file, o, default_exists, w))

ExportWallet ==
    /\ Idle
    /\ \E output_file \in {"", KEYS_FILE}, o \in KeysOutcomes :
           /\ output_file = "" => o = NotFound
           /\ Ran("_export_wallet", _export_wallet(Begin, output_file, o))

\* The user clicks the other radio button; Qt toggles both and runs the slot.
ToggleClient ==
    /\ Idle
    /\ \E radio \in {"public", "private"} :
           /\ radio /= widgets.client_radio
           /\ Ran("_on_client_type_changed",
                  _on_client_type_changed([Begin EXCEPT !.widgets.client_radio = radio]))

BrowseBinary ==
    /\ Idle
    /\ \E binary_file \in {"", "/opt/nw"} :
           Ran("_browse_binary", _browse_binary(Begin, binary_file))

SaveParams ==
    /\ Idle
    /\ \E fields \in {<<DEFAULT_SERVER, DEFAULT_PORT>>, <<"https://node", "9090">>},
          w \in WriteOutcomes, o \in CheckOutcomes :
           Ran("_save_params", _save_params(Begin, fields[1], fields[2], w, o))

\* The form is incomplete or wrong (no command runs), or it is valid; send-tx
\* has an outcome only when create-tx named a transaction file.
SendTransaction ==
    /\ Idle
    /\ \E recipient \in {<< >>, <<" ", "n", "o", "c", "k", "1">>},
          amount \in {<< >>, <<"a", "b", "c">>, <<"1", ".", "5", " ">>, <<"i", "n", "f">>},
          notes \in {<< >>, <<"n", "1", ",", " ", "n", "2">>},
          o1 \in CreateTxOutcomes, o2 \in SendTxOutcomes :
           /\ (recipient = << >> \/ amount /= <<"1", ".", "5", " ">>)
                  => (notes = << >> /\ o1 = NotFound)
           /\ o1 /= TxFileCreated => o2 = NotFound
           /\ Ran("_send_transaction",
                  _send_transaction(Begin, recipient, amount, notes, 10, o1, o2))

\* Another program rewrites or removes the configuration file while the
\* window is open.
ExternalEdit ==
    /\ Idle
    /\ \E f \in StartFiles :
           /\ f /= disk
           /\ disk' = f
           /\ action' = "external"
           /\ dialogs' = << >>
           /\ calls' = << >>
           /\ fileops' = << >>
           /\ log_mark' = Len(log)
           /\ UNCHANGED <<app, config, tx_engine, log, widgets, escaped, blocked, text, ret,
                          inflight>>

\* A call of a function that only computes: nothing but its result is kept.
Returned(call) ==
    /\ ret' = call
    /\ action' = call.fn
    /\ dialogs' = << >>
    /\ calls' = << >>
    /\ fileops' = << >>
    /\ log_mark' = Len(log)
    /\ UNCHANGED <<app, config, disk, tx_engine, log, widgets, escaped, blocked, text,
                   inflight>>

BuildBaseCommand ==
    /\ Running
    /\ \E include_wallet \in BOOLEAN :
           Returned(Call("_build_base_command", <<include_wallet>>, config,
                         _build_base_command(config, include_wallet)))

\* WalletOutputParser's static methods, by name.
ParserNames == {"parse_balance", "parse_wallet_version", "parse_height", "parse_notes",
                "extract_error"}

WalletOutputParser(fn, output) ==
    CASE fn = "parse_balance" -> parse_balance(output)
      [] fn = "parse_wallet_version" -> parse_wallet_version(output)
      [] fn = "parse_height" -> parse_height(output)
      [] fn = "parse_notes" -> parse_notes(output)
      [] OTHER -> extract_error(output)

ParseOutput ==
    /\ Running
    /\ \E fn \in ParserNames, output \in {BALANCE_FULL} :
           Returned(Call(fn, output, config, WalletOutputParser(fn, output)))

Next ==
    \/ RefreshBalance
    \/ LoadNotes
    \/ GetBlock
    \/ SelectWallet
    \/ ImportWallet
    \/ ExportWallet
    \/ ToggleClient
    \/ BrowseBinary
    \/ SaveParams
    \/ SendTransaction
    \/ ExternalEdit

Spec == Init /\ [][Next]_vars

\* The program with calls of its side-effect-free functions between the
\* handlers that change what those functions could read: the radio buttons,
\* the binary field, the configuration, the log and the balance label.
NextPure ==
    \/ BuildBaseCommand
    \/ ParseOutput
    \/ ToggleClient
    \/ BrowseBinary
    \/ SaveParams
    \/ SelectWallet
    \/ RefreshBalance

SpecPure == Init /\ [][NextPure]_vars

-----------------------------------------------------------------------------
(* The output parsers on their own *)

\* Pieces of wallet output: every keyed pattern of both versions, with
\* well-formed and malformed numbers and with different values.
SEGMENTS ==
    {<<"T", "o", "t", "a", "l", ":", " ", "7", " ", "n", "i", "c", "k", "s", " ">>,
     <<"T", "o", "t", "a", "l", ":", " ", "1", ",", "2", " ", "n", "i", "c", "k", "s", " ">>,
     <<"T", "o", "t", "a", "l", ":", " ", "1", ".", "5", " ", "n", "i", "c", "k", "s", " ">>,
     <<"A", "v", "a", "i", "l", "a", "b", "l", "e", ":", " ", "3", " ", "n", "i", "c", "k", "s", " ">>,
     <<"A", "v", "a", "i", "l", "a", "b", "l", "e", ":", " ", ",", " ", "n", "i", "c", "k", "s", " ">>,
     <<"H", "e", "i", "g", "h", "t", ":", " ", "1", ",", "0", " ">>,
     <<"H", "e", "i", "g", "h", "t", ":", " ", ".", " ">>,
     <<"V", "e", "r", "s", "i", "o", "n", ":", " ", "1", ".", "2", ".", "3", " ">>,
     <<"V", "e", "r", "s", "i", "o", "n", ":", " ", "4", ".", "5", " ">>,
     <<"V", "e", "r", "s", "i", "o", "n", ":", " ", "4", ".", "5", ".", "6", " ">>,
     <<"N", "u", "m", "b", "e", "r", " ", "o", "f", " ", "N", "o", "t", "e", "s", ":", " ", "4", " ">>,
     <<"n", "u", "m", "b", "e", "r", " ", "o", "f", " ", "n", "o", "t", "e", "s", ":", " ", "9", " ">>,
     <<"f", "r", "o", "m", " ", "b", "l", "o", "c", "k", " ", "a", "b", "1", " ">>,
     <<"f", "r", "o", "m", " ", "b", "l", "o", "c", "k", " ", "Z", "z", " ">>,
     <<"B", "a", "l", "a", "n", "c", "e", ":", " ", "5", " ", "n", "i", "c", "k", "s", " ">>,
     <<"b", "a", "l", "a", "n", "c", "e", ":", " ", "1", ",", "0", " ", "N", "I", "C", "K", " ">>,
     <<"a", "t", " ", "h", "e", "i", "g", "h", "t", " ", "2", ".", "0", " ">>,
     <<"A", "t", " ", "H", "e", "i", "g", "h", "t", " ", ",", " ">>,
     <<"W", "a", "l", "l", "e", "t", " ", "V", "e", "r", "s", "i", "o", "n", ":", " ", "v", "1", " ", "\n">>,
     <<"W", "a", "l", "l", "e", "t", " ", "V", "e", "r", "s", "i", "o", "n", ":", " ", "v", "2", "\n">>}

\* Most pieces a text is made of.
MaxSegs == 2

RECURSIVE Texts(_)
Texts(n) ==
    IF n = 0 THEN {<< >>}
    ELSE Texts(n - 1) \cup {t \o seg : t \in Texts(n - 1), seg \in SEGMENTS}

InitParse ==
    /\ text \in Texts(MaxSegs)
    /\ app = "parser"
    /\ config = DEFAULT_CONFIG
    /\ disk = FileAbsent
    /\ tx_engine = ""
    /\ log = << >>
    /\ widgets = InitWidgets(DEFAULT_CONFIG)
    /\ dialogs = << >>
    /\ calls = << >>
    /\ fileops = << >>
    /\ escaped = FALSE
    /\ blocked = FALSE
    /\ action = "text"
    /\ log_mark = 0
    /\ ret = NoCall
    /\ inflight = << >>

\* A static method of WalletOutputParser is applied to the text.
Parsed(fn, value) ==
    /\ app = "parser"
    /\ ret = NoCall
    /\ Returned(Call(fn, text, << >>, value))

ParseBalance == Parsed("parse_balance", parse_balance(text))

ParseWalletVersion == Parsed("parse_wallet_version", parse_wallet_version(text))

ParseHeight == Parsed("parse_height", parse_height(text))

ParseBalanceV011 == Parsed("v0.1.1 parse_balance", parse_balance_v011(text))

ParseWalletVersionV011 ==
    Parsed("v0.1.1 parse_wallet_version", parse_wallet_version_v011(text))

ParseHeightV011 == Parsed("v0.1.1 parse_height", parse_height_v011(text))

ParseNumberOfNotes == Parsed("parse_number_of_notes", parse_number_of_notes(text))

ParseBlockHash == Parsed("parse_block_hash", parse_block_hash(text))

NextParse ==
    \/ ParseBalance
    \/ ParseWalletVersion
    \/ ParseHeight
    \/ ParseBalanceV011
    \/ ParseWalletVersionV011
    \/ ParseHeightV011
    \/ ParseNumberOfNotes
    \/ ParseBlockHash

SpecParse == InitParse /\ [][NextParse]_vars

(* The line filters on their own *)

HEX39 == SubSeq(HEX40, 1, 39)

UPPER40 == [i \in 1..40 |-> IF HEX40[i] = "a" THEN "Z" ELSE HEX40[i]]

\* Lines of wallet output: identifiers that are long enough, too short or not
\* hexadecimal, messages, an option, noise, and the empty line.
LINES ==
    {HEX40,
     <<" ">> \o HEX40 \o <<"f", "f", " ">>,
     HEX39,
     <<"i", "d", " ">> \o UPPER40,
     <<" ", "e", "r", "r", "o", "r", ":", " ", "x", "\t">>,
     <<"-", "-", "h", "e", "l", "p">>,
     <<"T", "R", "A", "C", "E", " ", "[", "0", "m">>,
     <<"N", "o", "c", "k", "A", "p", "p", " ", "b", "o", "o", "t">>,
     << >>}

\* Most lines a text has.
MaxLines == 3

RECURSIVE LineTexts(_)
LineTexts(n) ==
    IF n = 1 THEN LINES
    ELSE LineTexts(n - 1) \cup {t \o <<"\n">> \o line : t \in LineTexts(n - 1), line \in LINES}

InitLines ==
    /\ text \in LineTexts(MaxLines)
    /\ app = "parser"
    /\ config = DEFAULT_CONFIG
    /\ disk = FileAbsent
    /\ tx_engine = ""
    /\ log = << >>
    /\ widgets = InitWidgets(DEFAULT_CONFIG)
    /\ dialogs = << >>
    /\ calls = << >>
    /\ fileops = << >>
    /\ escaped = FALSE
    /\ blocked = FALSE
    /\ action = "text"
    /\ log_mark = 0
    /\ ret = NoCall
    /\ inflight = << >>

ParseNotes == Parsed("parse_notes", parse_notes(text))

ParseNotesV011 == Parsed("v0.1.1 parse_notes", parse_notes_v011(text))

ExtractError == Parsed("extract_error", extract_error(text))

ExtractErrorV011 == Parsed("v0.1.1 extract_error", extract_error_v011(text))

NextLines ==
    \/ ParseNotes
    \/ ParseNotesV011
    \/ ExtractError
    \/ ExtractErrorV011

SpecLines == InitLines /\ [][NextLines]_vars

-----------------------------------------------------------------------------
(* The configuration between memory and file, in both versions *)

\* What a configuration file may hold for a key; "theme" is no default key.
FileValue(k) ==
    CASE k = "wallet_path" -> JString("/w/b.wallet")
      [] k = "wallet_imported" -> JTrue
      [] k = "client_type" -> JString("private")
      [] OTHER -> JString("dark")

\* File states: absent, unreadable, no JSON, JSON that is no object (a number,
\* null, a string, an array with and without pairs), and objects with some keys.
CfgFiles ==
    {FileAbsent, FileOf("unreadable"), FileOf("invalid"), FileOf("number"), FileOf("null"),
     FileString(""), FileString("ab"),
     FileArray(<< >>),
     FileArray(<<Pair("wallet_path", JString("/w/b.wallet"))>>),
     FileArray(<<Pair("client_type", JString("private")), NoPair>>)}
    \cup {FileObject(Members(keys, FileValue)) :
             keys \in SUBSET {"wallet_path", "wallet_imported", "theme"}}

\* Values the handlers store: paths and 'public' / 'private' as str, the
\* imported flag as bool.
AssignValues(k) ==
    CASE k = "wallet_path" -> {PyStr(""), PyStr(WALLET_FILE)}
      [] k = "wallet_imported" -> {PyBool(TRUE), PyBool(FALSE)}
      [] OTHER -> {PyStr("public"), PyStr("private")}

\* Most saves of one run of nock2.py (each writes a line to its log view).
MaxSaves == 1

InitCfg ==
    \E a \in {"nock2", "v011"}, f \in CfgFiles :
        /\ app = a
        /\ disk = f
        /\ config = Load(a, f)
        /\ fileops = LoadReads(f)
        /\ action = "load_config"
        /\ tx_engine = ""
        /\ log = << >>
        /\ widgets = InitWidgets(DEFAULT_CONFIG)
        /\ dialogs = << >>
        /\ calls = << >>
        /\ escaped = FALSE
        /\ blocked = FALSE
        /\ log_mark = 0
        /\ text = << >>
        /\ ret = NoCall
        /\ inflight = << >>

\* A handler stores a value under a key: config[k] = v.
CfgAssign ==
    \E k \in {"wallet_path", "wallet_imported", "client_type"} :
        \E v \in AssignValues(k) :
            /\ config[k] /= v
            /\ Ran("assign", [Begin EXCEPT !.config[k] = v])

\* _save_config() in nock2.py, save_config() in nockwallet-v0.1.1.py.
CfgSave ==
    /\ Len(log) < MaxSaves
    /\ \E w \in WriteOutcomes :
           Ran("save_config", IF app = "nock2" THEN _save_config(Begin, w)
                              ELSE save_config(Begin, w))

\* The program is closed and started again: the module is loaded anew.
CfgRestart ==
    /\ config' = Load(app, disk)
    /\ fileops' = LoadReads(disk)
    /\ log' = << >>
    /\ action' = "load_config"
    /\ log_mark' = 0
    /\ UNCHANGED <<app, disk, tx_engine, widgets, dialogs, calls, escaped, blocked, text, ret,
                   inflight>>

\* Another program rewrites or removes the file.
CfgEdit ==
    \E f \in CfgFiles :
        /\ f /= disk
        /\ disk' = f
        /\ action' = "external"
        /\ fileops' = << >>
        /\ log_mark' = Len(log)
        /\ UNCHANGED <<app, config, tx_engine, log, widgets, dialogs, calls, escaped, blocked,
                       text, ret, inflight>>

NextCfg ==
    \/ CfgAssign
    \/ CfgSave
    \/ CfgRestart
    \/ CfgEdit

SpecCfg == InitCfg /\ [][NextCfg]_vars

(* Amounts beyond the integers of the model checker *)

\* float has 53 significant bits.
MANTISSA_BITS == 53

\* Whole numbers of any size are sequences of decimal digits or of bits, the
\* most significant first; the empty sequence is zero.  They are converted
\* sixteen bits at a time, 65536 being 2^16.
\* digits \div k followed by digits % k, by long division.
RECURSIVE DivFrom(_, _, _)
DivFrom(digits, k, carry) ==
    IF digits = << >> THEN <<carry>>
    ELSE <<(carry * 10 + digits[1]) \div k>>
             \o DivFrom(Tail(digits), k, (carry * 10 + digits[1]) % k)

\* The bits of digits in words of sixteen.
RECURSIVE Words(_)
Words(digits) ==
    LET Cut(divided) ==
            Words(SubSeq(divided, 1, Len(divided) - 1))
                \o [j \in 1..16 |-> (divided[Len(divided)] \div 2 ^ (16 - j)) % 2]
    IN  IF \A i \in DOMAIN digits : digits[i] = 0 THEN << >>
        ELSE Cut(DivFrom(digits, NICKS_PER_NOCK, 0))

Bits(digits) ==
    LET From(bits, ones) == IF ones = {} THEN << >> ELSE SubSeq(bits, Min(ones), Len(bits))
        Significant(bits) == From(bits, {i \in DOMAIN bits : bits[i] = 1})
    IN  Significant(Words(digits))

\* The number a word of bits stands for.
RECURSIVE BitsValue(_)
BitsValue(bits) ==
    IF bits = << >> THEN 0
    ELSE 2 * BitsValue(SubSeq(bits, 1, Len(bits) - 1)) + bits[Len(bits)]

\* digits * k + carry, in decimal digits.
RECURSIVE TimesFrom(_, _, _)
TimesFrom(digits, k, carry) ==
    CASE carry = 0 /\ digits = << >> -> << >>
      [] digits = << >> -> TimesFrom(<< >>, k, carry \div 10) \o <<carry % 10>>
      [] OTHER -> TimesFrom(SubSeq(digits, 1, Len(digits) - 1), k,
                            (k * digits[Len(digits)] + carry) \div 10)
                      \o <<(k * digits[Len(digits)] + carry) % 10>>

\* The decimal digits of bits, the last word added to 65536 times the rest.
RECURSIVE Decimal(_)
Decimal(bits) ==
    LET Last(n) ==
            TimesFrom(Decimal(SubSeq(bits, 1, Len(bits) - n)), NICKS_PER_NOCK,
                      BitsValue(SubSeq(bits, Len(bits) - n + 1, Len(bits))))
    IN  IF bits = << >> THEN << >> ELSE Last(Min({16, Len(bits)}))

\* bits + 1
RECURSIVE Incr(_)
Incr(bits) ==
    IF bits = << >> THEN <<1>>
    ELSE IF bits[Len(bits)] = 0 THEN SubSeq(bits, 1, Len(bits) - 1) \o <<1>>
    ELSE Incr(SubSeq(bits, 1, Len(bits) - 1)) \o <<0>>

\* float(n) of a whole number: the nearest number with 53 significant bits,
\* the even one of two that are equally near.
Round53(bits) ==
    LET Rounded(kept, rest) ==
            (IF rest[1] = 1 /\ (kept[MANTISSA_BITS] = 1 \/ \E i \in 2..Len(rest) : rest[i] = 1)
             THEN Incr(kept) ELSE kept) \o [i \in DOMAIN rest |-> 0]
    IN  IF Len(bits) <= MANTISSA_BITS THEN bits
        ELSE Rounded(SubSeq(bits, 1, MANTISSA_BITS), SubSeq(bits, MANTISSA_BITS + 1, Len(bits)))

\* nock2.py _send_transaction, amount_nicks = int(float(amount) * 65536) for
\* an amount written in digits only: float() rounds, the product with
\* 65536 = 2^16 changes the exponent alone and is exact, int() keeps it; the
\* result is the text str() gives create-tx.
amount_nicks(amount) ==
    LET Text(digits) ==
            IF digits = << >> THEN <<"0">> ELSE [i \in DOMAIN digits |-> ToString(digits[i])]
    IN  Text(TimesFrom(Decimal(Round53(Bits([i \in DOMAIN amount |-> DigitValue(amount[i])]))),
                       NICKS_PER_NOCK, 0))

\* Amounts and totals written in digits: all of up to MaxDigits digits and
\* some around 2^53.
MaxDigits == 2

RECURSIVE DigitTexts(_)
DigitTexts(n) ==
    IF n = 0 THEN {<< >>}
    ELSE {<< >>} \cup {<<d>> \o t : d \in {"0", "1", "2", "3", "5", "9"}, t \in DigitTexts(n - 1)}

WideTexts ==
    {<<"1", "4", "0", "7", "3", "7", "4", "8", "8", "3", "5", "5", "3", "2", "8">>,
     <<"9", "0", "0", "7", "1", "9", "9", "2", "5", "4", "7", "4", "0", "9", "9", "2">>,
     <<"9", "0", "0", "7", "1", "9", "9", "2", "5", "4", "7", "4", "0", "9", "9", "3">>,
     <<"9", "0", "0", "7", "1", "9", "9", "2", "5", "4", "7", "4", "0", "9", "9", "5">>,
     <<"3", "6", "0", "2", "8", "7", "9", "7", "0", "1", "8", "9", "6", "3", "9", "7", "1">>}

InitAmount ==
    /\ text \in (DigitTexts(MaxDigits) \ {<< >>}) \cup WideTexts
    /\ app = "amount"
    /\ config = DEFAULT_CONFIG
    /\ disk = FileAbsent
    /\ tx_engine = ""
    /\ log = << >>
    /\ widgets = InitWidgets(DEFAULT_CONFIG)
    /\ dialogs = << >>
    /\ calls = << >>
    /\ fileops = << >>
    /\ escaped = FALSE
    /\ blocked = FALSE
    /\ action = "text"
    /\ log_mark = 0
    /\ ret = NoCall
    /\ inflight = << >>

\* The amount field holds the text: the number of nicks given to create-tx.
ConvertAmount ==
    /\ app = "amount"
    /\ ret = NoCall
    /\ Returned(Call("amount_nicks", text, << >>, amount_nicks(text)))

\* show-balance prints the text as the total: parse_balance reads it (totals
\* that fit the integers of the model checker).
ParseTotal ==
    /\ app = "amount"
    /\ ret = NoCall
    /\ Len(text) <= MaxDigits + 1
    /\ Returned(Call("parse_balance", text, << >>,
                     parse_balance(<<"T", "o", "t", "a", "l", ":", " ">> \o text
                                       \o <<" ", "n", "i", "c", "k", "s">>)))

NextAmount ==
    \/ ConvertAmount
    \/ ParseTotal

SpecAmount == InitAmount /\ [][NextAmount]_vars

(* Sending *)

\* Longest log a transaction may start from.
MaxSendLog == 6

\* What create-tx may print: nothing, one file, a file after other lines and
\* with a blank before it, lines that only contain ".tx".
TX_FILE_SECOND == <<"l", "o", "g", "\n", " ", "b", ".", "t", "x", "\n", "c", ".", "t", "x">>

TX_FILE_NONE == <<"a", ".", "t", "x", " ", "\n", "b", ".", "t", "x", "t">>

CreateTxOutputs == {<< >>, TX_FILE_OUT, TX_FILE_SECOND, TX_FILE_NONE}

\* A call of TransactionEngine.send_funds: what it runs is recorded in calls,
\* the dict it returns in ret.
SendFunds ==
    /\ Running
    /\ \E nicks \in {0 - NICKS_PER_NOCK, 0, 98304},
          note_names \in {<< >>, <<<<"n", "1">>, <<"n", "2">>>>},
          rc \in {0, 1}, out \in CreateTxOutputs, k \in {"exit", "notfound", "hang"},
          o2 \in SendTxOutcomes :
           LET Left(sent) ==
                   /\ calls' = sent.s.calls
                   /\ blocked' = sent.s.blocked
                   /\ ret' = Call("send_funds", <<nicks>>, config, sent.result)
               Send(o1) ==
                   /\ (Raised(o1, NO_TIMEOUT, TRUE) /= "" \/ o1.stdout \in {<< >>, TX_FILE_NONE})
                          => o2 = NotFound
                   /\ Left(send_funds(Begin, "nock1", nicks, note_names, 10, o1, o2))
           IN  /\ k /= "exit" => (rc = 0 /\ out = << >>)
               /\ note_names /= << >> => nicks = 98304
               /\ Send([k |-> k, rc |-> rc, stdout |-> out,
                        stderr |-> IF rc = 0 THEN << >> ELSE STDERR_ERROR])
    /\ action' = "send_funds"
    /\ dialogs' = << >>
    /\ fileops' = << >>
    /\ log_mark' = Len(log)
    /\ UNCHANGED <<app, config, disk, tx_engine, log, widgets, escaped, text, inflight>>

\* The engine of the running program is called with any arguments.
SpecEngine == Init /\ [][SendFunds]_vars

\* The Envoyer button: text keeps what the recipient and amount fields held.
\* The commands have an outcome only when they run.
SendForm ==
    /\ Running
    /\ Len(log) < MaxSendLog
    /\ \E recipient \in {<<"n", "o", "c", "k", "1">>, <<" ">>},
          amount \in {<<"1", ".", "5">>, <<"0">>, <<"-", "1">>,
                      <<"0", ".", "0", "0", "0", "0", "1">>,
                      << >>, <<"a", "b", "c">>, <<"n", "a", "n">>, <<"i", "n", "f">>},
          o1 \in {TxFileCreated, Exit(1, << >>, STDERR_ERROR)}, o2 \in SendTxOutcomes :
           LET Left(s) ==
                   /\ config' = s.config
                   /\ disk' = s.disk
                   /\ log' = s.log
                   /\ widgets' = s.widgets
                   /\ dialogs' = s.dialogs
                   /\ calls' = s.calls
                   /\ fileops' = s.fileops
                   /\ escaped' = s.escaped
                   /\ blocked' = s.blocked
           IN  /\ o1 /= TxFileCreated => o2 = NotFound
               /\ (Strip(recipient) = << >> \/ float_of(Strip(amount)).kind /= "finite"
                       \/ amount = << >>)
                      => o1 = TxFileCreated /\ o2 = NotFound
               /\ Left(_send_transaction(Begin, recipient, amount, << >>, 10, o1, o2))
               /\ text' = <<recipient, amount>>
    /\ action' = "_send_transaction"
    /\ log_mark' = Len(log)
    /\ UNCHANGED <<app, tx_engine, ret, inflight>>

\* The program started without a configuration file and its binary answered.
InitSend ==
    /\ Init
    /\ disk = FileAbsent
    /\ \A i \in DOMAIN calls : calls[i].outcome = "exit" /\ calls[i].rc = 0

NextSend ==
    \/ SendForm
    \/ BrowseBinary
    \/ SaveParams

SpecSend == InitSend /\ [][NextSend]_vars

(* Command lines under every configuration *)

\* Configuration files that set the client, the server, the port and the
\* wallet; a file that says the wallet is imported names it.
CommandFiles ==
    {FileObject([k \in {"client_type", "public_server", "private_port", "wallet_imported",
                        "wallet_path"} |->
                    CASE k = "client_type" -> JString(client_type)
                      [] k = "public_server" -> JString(public_server)
                      [] k = "private_port" -> JString(private_port)
                      [] k = "wallet_imported" -> wallet[1]
                      [] OTHER -> JString(wallet[2])]) :
         client_type \in {"public", "private", "testnet"},
         public_server \in {"", DEFAULT_SERVER, "https://node"},
         private_port \in {"", DEFAULT_PORT, "9090"},
         wallet \in {<<JFalse, "">>, <<JFalse, "/w/b.wallet">>, <<JTrue, "/w/b.wallet">>}}

\* Either program has loaded its configuration; nock2.py has built its window.
InitCommand ==
    \E f \in CommandFiles :
        \/ Start(f, Exit(0, << >>, << >>))
        \/ /\ app = "v011"
           /\ disk = f
           /\ config = Load("v011", f)
           /\ fileops = LoadReads(f)
           /\ action = "load_config"
           /\ tx_engine = ""
           /\ log = << >>
           /\ widgets = InitWidgets(DEFAULT_CONFIG)
           /\ dialogs = << >>
           /\ calls = << >>
           /\ escaped = FALSE
           /\ blocked = FALSE
           /\ log_mark = 0
           /\ text = << >>
           /\ ret = NoCall
           /\ inflight = << >>

BuildBaseCommandV011 ==
    /\ app = "v011"
    /\ Returned(Call("_build_base_command", << >>, config, _build_base_command_v011(config)))

NextCommand ==
    \/ BuildBaseCommand
    \/ BuildBaseCommandV011
    \/ RefreshBalance
    \/ LoadNotes
    \/ GetBlock

SpecCommand == InitCommand /\ [][NextCommand]_vars

(* The wallet tab *)

\* The handlers that read or set the wallet of the configuration.
NextWallet ==
    \/ RefreshBalance
    \/ LoadNotes
    \/ SelectWallet
    \/ ImportWallet
    \/ ExportWallet

SpecWallet == Init /\ [][NextWallet]_vars

(* Handlers that store the wallet, in both versions *)

IMPORT_OUT == <<"C", "o", "m", "m", "a", "n", "d", " ", "e", "x", "e", "c", "u", "t", "e", "d", " ", "s", "u", "c", "c", "e", "s", "s", "f", "u", "l", "l", "y", "\n">>

BALANCE_V011 ==
    <<"I", " ", "(", "1", "2", ":", "0", "0", ":", "0", "1", ")", " ", "B", "a", "l", "a", "n", "c", "e", ":", " ", "1", ",", "0", "2", "4", " ", "n", "i", "c", "k", "s", "\n", "N", "u", "m", "b", "e", "r", " ", "o", "f", " ", "N", "o", "t", "e", "s", ":", " ", "4", "\n", "a", "t", " ", "h", "e", "i", "g", "h", "t", " ", "1", ",", "2", "0", "0", " ", "f", "r", "o", "m", " ", "b", "l", "o", "c", "k", " ", "a", "b", "1", "\n">>

BALANCE_V011_NONE ==
    <<"I", " ", "(", "1", "2", ":", "0", "0", ":", "0", "1", ")", " ", "[", "c", "l", "i", "]", " ", "n", "o", " ", "n", "o", "t", "e", "s", "\n", "k", "e", "r", "n", "e", "l", ":", ":", "b", "o", "o", "t", "\n">>

\* nockwallet-v0.1.1.py has loaded file f; the window is open.
StartV011(f) ==
    /\ app = "v011"
    /\ disk = f
    /\ config = Load("v011", f)
    /\ fileops = LoadReads(f)
    /\ action = "load_config"
    /\ tx_engine = ""
    /\ log = << >>
    /\ widgets = InitWidgets(DEFAULT_CONFIG)
    /\ dialogs = << >>
    /\ calls = << >>
    /\ escaped = FALSE
    /\ blocked = FALSE
    /\ log_mark = 0
    /\ text = << >>
    /\ ret = NoCall
    /\ inflight = << >>

InitStore ==
    \/ Init
    \/ \E f \in StartFiles : StartV011(f)

\* v0.1.1: Importer; the files looked for afterwards, the write and
\* show-balance have an outcome only when they are reached.
ImportWalletV011 ==
    /\ app = "v011"
    /\ Len(log) < MaxLog
    /\ \E source_file \in {"", KEYS_FILE},
          o \in KeysOutcomes \cup {Exit(0, IMPORT_OUT, << >>)},
          default_exists \in BOOLEAN, alt_exists \in BOOLEAN, w \in WriteOutcomes,
          ob \in Failures \cup {Exit(0, BALANCE_V011, << >>),
                                Exit(0, BALANCE_V011_NONE, << >>)} :
           /\ (source_file = "" \/ o \in Failures)
                  => (o = NotFound \/ source_file /= "") /\ default_exists /\ alt_exists
                     /\ w = "ok" /\ ob = NotFound
           /\ default_exists => alt_exists
           /\ Ran("_import_wallet", _import_wallet_v011(Begin, source_file, o, default_exists,
                                                       alt_exists, w, ob))

\* v0.1.1: Rafraichir.
RefreshBalanceV011 ==
    /\ app = "v011"
    /\ Len(log) < MaxLog
    /\ \E ob \in Failures \cup {Exit(0, BALANCE_V011, << >>),
                                Exit(0, BALANCE_V011_NONE, << >>)} :
           Ran("_refresh_balance", _refresh_balance_v011(Begin, ob))

NextStore ==
    \/ SelectWallet
    \/ ImportWallet
    \/ ExportWallet
    \/ SaveParams
    \/ BrowseBinary
    \/ ToggleClient
    \/ ImportWalletV011
    \/ RefreshBalanceV011

SpecStore == InitStore /\ [][NextStore]_vars

(* The notes tab, loaded again and again *)

MaxNotesLog == 6

NOTES_ONE == <<" ", "n", "o", "t", "e", " ">> \o HEX40 \o <<" ", "\n">>

\* The refresh button of the notes tab, with the check box in either state.
ReloadNotes ==
    /\ Running
    /\ Len(log) < MaxNotesLog
    /\ \E watch_only \in BOOLEAN, o \in NotesOutcomes \cup {Exit(0, NOTES_ONE, << >>)} :
           Ran("_load_notes", _load_notes(Begin, watch_only, o))

SpecNotes == Init /\ [][ReloadNotes]_vars

(* The event loop and a handler inside subprocess.run *)

\* Every handler can start while another one waits for its command.
EventLoopShared == TRUE

\* main() runs QApplication.exec() on the one thread of the program, and the
\* handlers call subprocess.run on that thread: the loop hands out the next
\* event when no handler is inside a command.
EventLoopFree == inflight = << >>

\* _refresh_balance up to its subprocess.run: the command is built from the
\* configuration and logged, then the thread waits for the binary.
EnterRefreshBalance ==
    /\ Running
    /\ Len(log) <= MaxLog
    /\ EventLoopFree
    /\ Truthy(config["wallet_imported"])
    /\ log' = append_log(Begin, "command", "$",
                         _build_base_command(config, TRUE) \o <<"show-balance">>, << >>).log
    /\ inflight' = Append(inflight,
                          [handler |-> "_refresh_balance", cfg |-> config, log |-> log,
                           cmd |-> _build_base_command(config, TRUE) \o <<"show-balance">>])
    /\ action' = "_refresh_balance"
    /\ log_mark' = Len(log)
    /\ dialogs' = << >>
    /\ calls' = << >>
    /\ fileops' = << >>
    /\ UNCHANGED <<app, config, disk, tx_engine, widgets, escaped, blocked, text, ret>>

\* subprocess.run returns or raises and _refresh_balance handles the outcome.
LeaveRefreshBalance ==
    /\ Running
    /\ inflight /= << >>
    /\ \E o \in BalanceOutcomes :
           LET Left(frame, s) ==
                   /\ config' = s.config
                   /\ disk' = s.disk
                   /\ log' = s.log
                   /\ widgets' = s.widgets
                   /\ dialogs' = s.dialogs
                   /\ calls' = s.calls
                   /\ fileops' = s.fileops
                   /\ escaped' = s.escaped
                   /\ blocked' = s.blocked
                   /\ action' = frame.handler
                   /\ log_mark' = Len(frame.log)
               Leave(frame) ==
                   Left(frame, _refresh_balance([Begin EXCEPT !.log = frame.log], o))
           IN  Leave(inflight[Len(inflight)])
    /\ inflight' = SubSeq(inflight, 1, Len(inflight) - 1)
    /\ UNCHANGED <<app, tx_engine, text, ret>>

NextLoop ==
    \/ EnterRefreshBalance
    \/ LeaveRefreshBalance
    \/ EventLoopFree /\ SelectWallet
    \/ EventLoopFree /\ SaveParams
    \/ EventLoopFree /\ ToggleClient

SpecLoop == Init /\ [][NextLoop]_vars

\* ---------------------------------------------------------------------------
\* Properties
\* ---------------------------------------------------------------------------

\* The log lines and the external commands of the handler that ran last.
NewLines == SubSeq(log, log_mark + 1, Len(log))

COMMANDS == {"show-balance", "list-notes", "get-block", "import-keys", "export-keys",
             "create-tx", "send-tx", "--help"}

CommandOf(cmd) == CHOOSE c \in COMMANDS \cup {""} :
                      IF \E i \in DOMAIN cmd : cmd[i] \in COMMANDS
                      THEN c \in Range(cmd) \cap COMMANDS ELSE c = ""

\* The command was not found, ended with a non-zero code or ran into its timeout.
CallFailed(c) ==
    \/ c.outcome = "notfound"
    \/ c.outcome = "exit" /\ c.rc /= 0
    \/ c.outcome = "hang" /\ c.timeout /= NO_TIMEOUT

\* The command ended with code 0 and a text its handler cannot use.
Unparseable(c) ==
    /\ c.outcome = "exit"
    /\ c.rc = 0
    /\ \/ CommandOf(c.cmd) = "show-balance" /\ parse_balance(c.stdout).none
       \/ /\ CommandOf(c.cmd) = "create-tx"
          /\ \A i \in DOMAIN splitlines(c.stdout) :
                 ~EndsWith(splitlines(c.stdout)[i], <<".", "t", "x">>)

CommandFailed == \E i \in DOMAIN calls : CallFailed(calls[i]) \/ Unparseable(calls[i])

\* The handler's last log line reports an error or a warning.
FailureLogged ==
    /\ NewLines /= << >>
    /\ NewLines[Len(NewLines)].type \in {"error", "warning"}

FailureDialog == \E i \in DOMAIN dialogs : dialogs[i].kind \in {"warning", "critical"}

\* C1 as stated: whenever an external command of the last handler failed
\* (missing binary, non-zero exit code, timeout, unparseable output), the
\* handler has written a log line for it and has shown a modal dialog.
C1_LogAndDialog == CommandFailed => FailureLogged /\ FailureDialog

\* C1 amended: every failure of an external command gives an error or warning
\* log line; a modal dialog comes with it in _import_wallet, _export_wallet
\* and _send_transaction, in _check_binary (at start and after _save_params)
\* only when the binary is missing, and never in _refresh_balance, _load_notes,
\* _get_block and the refresh of _select_wallet.
C1_LogAlwaysDialogWhereShown ==
    CommandFailed =>
        /\ FailureLogged
        /\ action \in {"_import_wallet", "_export_wallet", "_send_transaction"} => FailureDialog
        /\ action \in {"_refresh_balance", "_load_notes", "_get_block", "_select_wallet"}
               => ~FailureDialog
        /\ action \in {"__init__", "_save_params"}
               => (FailureDialog <=> calls[1].outcome = "notfound")

C1_RefreshFailedLogOnly ==
    /\ action = "_refresh_balance"
    /\ CommandFailed
    /\ FailureLogged
    /\ dialogs = << >>

C1_ImportFailedDialog ==
    /\ action = "_import_wallet"
    /\ CommandFailed
    /\ FailureLogged
    /\ FailureDialog

C1_Witness == C1_RefreshFailedLogOnly \/ C1_ImportFailedDialog

\* C2 as stated: every external command runs under a finite timeout and no
\* handler stays blocked in a command that never terminates.
C2_EveryCommandTimed ==
    /\ ~blocked
    /\ \A i \in DOMAIN calls : calls[i].timeout /= NO_TIMEOUT

\* C3: a configuration that was saved and is loaded at the next start comes
\* back equal on every key (strings and booleans over the default keys).
C3_RoundTrip ==
    [][(action = "save_config" /\ fileops = <<"write">> /\ action' = "load_config")
           => config' = config]_vars

C3_Witness ==
    /\ action = "load_config"
    /\ disk = SavedFile(config)
    /\ config["wallet_imported"] = PyBool(TRUE)
    /\ config["wallet_path"] = PyStr(WALLET_FILE)

\* C4 as stated: after loading, whatever the file holds, every default key is
\* in the configuration; a key of a JSON object in the file has the file's
\* value, every other key its default value.
C4_DefaultedKeys ==
    action = "load_config" =>
        \A k \in DOMAIN Defaults(app) :
            /\ k \in DOMAIN config
            /\ config[k] = IF disk.kind = "object" /\ k \in DOMAIN disk.members
                           THEN json_load_value(disk.members[k])
                           ELSE Defaults(app)[k]

\* C5 as stated: no handler lets an exception escape to the event loop.
C5_NoEscape == ~escaped

\* C6: within one handler no command is started twice, and no command is
\* started after a command that failed.
C6_NoRetry ==
    \A i, j \in DOMAIN calls :
        i < j => /\ CommandOf(calls[i].cmd) /= CommandOf(calls[j].cmd)
                 /\ ~CallFailed(calls[i])

C6_Witness ==
    \/ /\ action = "_send_transaction"
       /\ Len(calls) = 1
       /\ CommandOf(calls[1].cmd) = "create-tx"
       /\ CallFailed(calls[1])
    \/ /\ action = "_send_transaction"
       /\ Len(calls) = 2
       /\ CommandOf(calls[2].cmd) = "send-tx"
       /\ CallFailed(calls[2])

\* The pattern occurs somewhere in the text.
Occurs(Group(_, _)) == \E i \in DOMAIN text : Group(text, i) /= <<0, 0>>

\* The group of the pattern's first occurrence in the text.
FirstGroupAt(from, to) == SubSeq(text, from, to)

FirstText(Group(_, _)) ==
    LET At(g) == FirstGroupAt(g[1], g[2])
    IN  At(Group(text, CHOOSE i \in DOMAIN text :
                           /\ Group(text, i) /= <<0, 0>>
                           /\ \A j \in 1..(i - 1) : Group(text, j) = <<0, 0>>))

\* The digits of a number written with separators, and the number int() reads
\* from them; a number without a digit is malformed.
DigitsOf(t) == SelectSeq(t, LAMBDA c : c \in Digit)

WellFormed(t, separators) ==
    /\ DigitsOf(t) /= << >>
    /\ \A i \in DOMAIN t : t[i] \in Digit \cup separators

NumberOrNone(t, separators) ==
    IF WellFormed(t, separators) THEN SomeInt(IntValue(DigitsOf(t))) ELSE None

\* C7: each extraction function returns none when its pattern does not occur
\* in the text or the number of the first occurrence is malformed, and
\* otherwise the value of the first occurrence, whatever follows it.
C7_FirstOrNone ==
    /\ action = "parse_height" =>
           ret.value = IF Occurs(HeightGroup)
                       THEN NumberOrNone(FirstText(HeightGroup), {",", "."})
                       ELSE None
    /\ action = "parse_wallet_version" =>
           ret.value = IF Occurs(VersionGroup) THEN SomeStr(FirstText(VersionGroup))
                       ELSE None
    /\ action = "parse_number_of_notes" =>
           ret.value = IF Occurs(NotesCountGroup)
                       THEN NumberOrNone(FirstText(NotesCountGroup), {})
                       ELSE None
    /\ action = "parse_block_hash" =>
           ret.value = IF Occurs(BlockHashGroup) THEN SomeStr(FirstText(BlockHashGroup))
                       ELSE None
    /\ action = "parse_balance" =>
           IF \/ ~Occurs(TotalGroup)
              \/ ~WellFormed(FirstText(TotalGroup), {","})
              \/ Occurs(AvailableGroup) /\ ~WellFormed(FirstText(AvailableGroup), {","})
           THEN ret.value.none
           ELSE /\ ~ret.value.none
                /\ ret.value.total_nicks = IntValue(DigitsOf(FirstText(TotalGroup)))
                /\ ret.value.available_nicks =
                       IF Occurs(AvailableGroup)
                       THEN IntValue(DigitsOf(FirstText(AvailableGroup)))
                       ELSE 0

\* Two occurrences of the pattern with different groups, the first one read.
C7_Witness ==
    /\ action = "parse_height"
    /\ ~ret.value.none
    /\ \E i, j \in DOMAIN text :
           /\ i < j
           /\ HeightGroup(text, i) /= <<0, 0>>
           /\ HeightGroup(text, j) /= <<0, 0>>
           /\ SubSeq(text, HeightGroup(text, i)[1], HeightGroup(text, i)[2])
                  /= SubSeq(text, HeightGroup(text, j)[1], HeightGroup(text, j)[2])
           /\ \A k \in 1..(i - 1) : HeightGroup(text, k) = <<0, 0>>

\* C8: every step leaves the log lines written so far in place and only adds
\* lines after them.
C8_AppendOnly ==
    [][Len(log') >= Len(log) /\ SubSeq(log', 1, Len(log)) = log]_vars

C8_Witness ==
    /\ action \notin {"__init__", "external"}
    /\ log_mark > 0
    /\ Len(log) > log_mark

\* The configuration keys a handler assigns.
AssignedBy(handler) ==
    CASE handler = "_save_params" ->
             {"wallet_binary", "client_type", "public_server", "private_port"}
      [] handler \in {"_select_wallet", "_import_wallet"} ->
             {"wallet_path", "wallet_imported", "last_used_directory"}
      [] OTHER -> {}

\* C9: after the start no step reads the configuration file; a step changes
\* only the keys its handler assigns, whatever the file holds by then, and a
\* step that writes the file leaves the in-memory record in it.
C9_ReadOnceAtStart ==
    [][/\ "read" \notin Range(fileops')
       /\ \A k \in DOMAIN config :
              k \notin AssignedBy(action') => k \in DOMAIN config' /\ config'[k] = config[k]
       /\ "write" \in Range(fileops') => disk' = SavedFile(config')]_vars

\* Another program has changed the file and the running program has not
\* taken the change over.
C9_Witness ==
    /\ action = "external"
    /\ fileops = << >>
    /\ disk.kind = "object"
    /\ Load("nock2", disk) /= config

\* The functions without side effects, by the name their call is recorded under.
PureNames == ParserNames \cup {"_build_base_command"}

RECURSIVE Canonical(_)
Canonical(t) ==
    IF Len(t) > 1 /\ t[1] = 0 THEN Canonical(Tail(t)) ELSE t

\* C12 as stated: a whole amount a of the send form reaches create-tx as
\* exactly a * 65536 nicks, and a balance text with a total of t nicks gives
\* total_nicks = t and total_nock * 65536 = t.
C12_ExactNicks ==
    /\ action = "amount_nicks" =>
           ret.value =
               LET Product(digits) == [i \in DOMAIN digits |-> ToString(digits[i])]
               IN  Product(Canonical(TimesFrom([i \in DOMAIN text |-> DigitValue(text[i])],
                                                NICKS_PER_NOCK, 0)))
    /\ action = "parse_balance" =>
           /\ ~ret.value.none
           /\ ret.value.total_nicks = IntValue(text)
           /\ ret.value.total_nock[1] * NICKS_PER_NOCK
                  = IntValue(text) * ret.value.total_nock[2]

\* The lines of create-tx's output that end in ".tx", in order.
TxLines(c) == SelectSeq(splitlines(c.stdout), LAMBDA line : EndsWith(line, <<".", "t", "x">>))

\* C13 as stated: send_funds runs send-tx only after create-tx has exited
\* with 0 and printed a line ending in ".tx", and on that first line as it
\* was printed; otherwise send-tx is not run and the result is no success.
C13_SendTxOnFirstLine ==
    action = "send_funds" =>
        /\ calls /= << >>
        /\ calls[1].cmd[2] = "create-tx"
        /\ \A i \in DOMAIN calls : calls[i].cmd[2] = "send-tx" => i = 2
        /\ IF calls[1].outcome = "exit" /\ calls[1].rc = 0 /\ TxLines(calls[1]) /= << >>
           THEN /\ Len(calls) = 2
                /\ calls[2].cmd = <<tx_engine, "send-tx", Str(TxLines(calls[1])[1])>>
           ELSE /\ Len(calls) = 1
                /\ ~ret.value.success

\* C13, amended: the file given to send-tx is the first such line without
\* the white space around it.
C13_SendTxOnFirstLineStripped ==
    action = "send_funds" =>
        /\ calls /= << >>
        /\ calls[1].cmd[2] = "create-tx"
        /\ \A i \in DOMAIN calls : calls[i].cmd[2] = "send-tx" => i = 2
        /\ IF calls[1].outcome = "exit" /\ calls[1].rc = 0 /\ TxLines(calls[1]) /= << >>
           THEN /\ Len(calls) = 2
                /\ calls[2].cmd = <<tx_engine, "send-tx", Str(Strip(TxLines(calls[1])[1]))>>
           ELSE /\ Len(calls) = 1
                /\ ~ret.value.success

\* create-tx printed its file on the second line after a blank and send-tx
\* ran on it.
C13_Witness ==
    /\ action = "send_funds"
    /\ Len(calls) = 2
    /\ calls[1].stdout = TX_FILE_SECOND
    /\ calls[2].cmd[3] = "b.tx"

\* C14 as stated: whenever both commands of send_funds have exited with 0,
\* whatever send-tx printed, _send_transaction adds exactly one row to the
\* history, shows the success text in the status label and the success
\* dialog, and shows no error dialog.
C14_SuccessShown ==
    [][(/\ action' = "_send_transaction"
        /\ Len(calls') = 2
        /\ \A i \in DOMAIN calls' : calls'[i].outcome = "exit" /\ calls'[i].rc = 0)
       => /\ Len(widgets'.tx_history) = Len(widgets.tx_history) + 1
          /\ widgets'.tx_status.fmt = "Transaction envoyee"
          /\ dialogs' = <<[kind |-> "information", title |-> "Succes"]>>]_vars

\* C15 as stated: every external command, create-tx and send-tx included,
\* runs the wallet binary the configuration holds when the command is
\* started, also after _save_params has stored another path.
C15_CurrentBinary ==
    \A i \in DOMAIN calls : calls[i].cmd[1] = config["wallet_binary"].s

\* C16 as stated: the commands of a transaction carry, after the binary, the
\* client selection and the --wallet path that show-balance carries under
\* the same configuration.
C16_SameClientAndWallet ==
    action = "_send_transaction" =>
        \A i \in DOMAIN calls :
            LET Carries(cmd, base) ==
                    /\ Len(cmd) >= Len(base)
                    /\ SubSeq(cmd, 2, Len(base)) = Tail(base)
            IN  Carries(calls[i].cmd, _build_base_command(config, TRUE))

\* C17 as stated: the number of nicks _send_transaction hands to create-tx,
\* computed from the amount of the form, is never zero or negative.
C17_PositiveNicks ==
    (action = "_send_transaction" /\ calls /= << >>) =>
        LET Positive(recipient, nicks) ==
                /\ calls[1].cmd[2] = "create-tx"
                /\ calls[1].cmd[4] = recipient \o ":" \o ToString(nicks)
                /\ nicks > 0
        IN  Positive(log[log_mark + 1].args[1], NicksOf(float_of(log[log_mark + 1].txt)))

\* The number of times x occurs in cmd.
Count(cmd, x) == Cardinality({i \in DOMAIN cmd : cmd[i] = x})

\* C18: in both programs the base command is the configured binary, then one
\* --client flag, public when client_type is 'public' and private otherwise;
\* the server address follows exactly when the client is public and
\* public_server is neither empty nor the default, the port exactly when the
\* client is private and private_port is neither empty nor '50051'; never both.
C18_BaseCommand ==
    action = "_build_base_command" =>
        LET Built(cmd, cfg, public) ==
                /\ cmd[1] = cfg["wallet_binary"].s
                /\ cmd[2] = "--client"
                /\ Count(cmd, "--client") = 1
                /\ cmd[3] = IF public THEN "public" ELSE "private"
                /\ Count(cmd, "--public-grpc-server-addr") =
                       IF public /\ cfg["public_server"].s \notin {"", "https://nockchain-api.zorp.io"}
                       THEN 1 ELSE 0
                /\ Count(cmd, "--private-grpc-server-port") =
                       IF ~public /\ cfg["private_port"].s \notin {"", "50051"} THEN 1 ELSE 0
                /\ Count(cmd, "--public-grpc-server-addr") = 1
                       => cmd[5] = cfg["public_server"].s
                /\ Count(cmd, "--private-grpc-server-port") = 1
                       => cmd[5] = cfg["private_port"].s
                /\ Count(cmd, "--public-grpc-server-addr")
                       + Count(cmd, "--private-grpc-server-port") <= 1
        IN  Built(ret.value, ret.cfg, ret.cfg["client_type"].s = "public")

\* nockwallet-v0.1.1.py built the command of a client_type that is neither
\* public nor private, with a port of its own.
C18_Witness ==
    /\ action = "_build_base_command"
    /\ app = "v011"
    /\ config["client_type"].s = "testnet"
    /\ ret.value = <<"nockchain-wallet", "--client", "private",
                     "--private-grpc-server-port", "9090">>

\* C19: in nock2.py the base command has --wallet exactly when include_wallet
\* is true and wallet_imported is true, followed by wallet_path; show-balance
\* and list-notes are built with it, get-block never carries it.
C19_WalletOption ==
    LET Wallet(cmd, cfg, with) ==
            /\ Count(cmd, "--wallet") = IF with /\ Truthy(cfg["wallet_imported"]) THEN 1 ELSE 0
            /\ \A i \in DOMAIN cmd :
                   cmd[i] = "--wallet" => i < Len(cmd) /\ cmd[i + 1] = cfg["wallet_path"].s
    IN  /\ (action = "_build_base_command" /\ app = "nock2")
               => Wallet(ret.value, ret.cfg, ret.arg[1])
        /\ action \in {"_refresh_balance", "_load_notes", "_get_block"} =>
               \A i \in DOMAIN calls :
                   /\ Count(calls[i].cmd, "show-balance") + Count(calls[i].cmd, "list-notes")
                          + Count(calls[i].cmd, "get-block") = 1
                   /\ Wallet(calls[i].cmd, config, Count(calls[i].cmd, "get-block") = 0)

\* get-block has run under a configuration with an imported wallet.
C19_Witness ==
    /\ action = "_get_block"
    /\ Truthy(config["wallet_imported"])
    /\ calls /= << >>
    /\ Count(calls[1].cmd, "--wallet") = 0
    /\ Count(calls[1].cmd, "get-block") = 1

\* C20: in nock2.py, started with a configuration in which an imported wallet
\* has a path, wallet_imported = true implies a non-empty wallet_path in every
\* reachable state, and no command carries --wallet followed by an empty path.
C20_ImportedWalletNamed ==
    /\ Truthy(config["wallet_imported"]) => config["wallet_path"].s /= ""
    /\ \A i \in DOMAIN calls :
           \A j \in DOMAIN calls[i].cmd :
               calls[i].cmd[j] = "--wallet"
                   => j < Len(calls[i].cmd) /\ calls[i].cmd[j + 1] /= ""

\* _select_wallet has stored the chosen wallet and asked for its balance.
C20_Witness ==
    /\ action = "_select_wallet"
    /\ config["wallet_imported"] = PyBool(TRUE)
    /\ config["wallet_path"] = PyStr(WALLET_FILE)
    /\ calls /= << >>
    /\ calls[1].cmd[4] = "--wallet"
    /\ calls[1].cmd[5] = WALLET_FILE

\* C21: while wallet_imported is false, _refresh_balance, _load_notes and
\* _export_wallet run no external command and leave the configuration, the
\* balance label and the notes table as they were.
C21_NoWalletNoCommand ==
    [][(/\ config["wallet_imported"] = PyBool(FALSE)
        /\ action' \in {"_refresh_balance", "_load_notes", "_export_wallet"})
       => /\ calls' = << >>
          /\ config' = config
          /\ widgets'.balance_label = widgets.balance_label
          /\ widgets'.notes_table = widgets.notes_table]_vars

\* _export_wallet was asked for without a wallet and only showed its warning.
C21_Witness ==
    /\ action = "_export_wallet"
    /\ config["wallet_imported"] = PyBool(FALSE)
    /\ dialogs = <<[kind |-> "warning", title |-> "Attention"]>>
    /\ calls = << >>

\* C24: whenever send_funds returns, nothing has escaped it and its record
\* says success exactly when create-tx and send-tx both exited with 0 and a
\* transaction file was found; a record without success carries an error.
C24_AlwaysARecord ==
    (action = "send_funds" /\ ~blocked) =>
        /\ ~escaped
        /\ ret.value.success \in BOOLEAN
        /\ ret.value.success <=>
               /\ Len(calls) = 2
               /\ \A i \in DOMAIN calls : calls[i].outcome = "exit" /\ calls[i].rc = 0
               /\ TxLines(calls[1]) /= << >>
        /\ ~ret.value.success => ret.value.has_error

\* create-tx printed a transaction file and send-tx could not be started.
C24_Witness ==
    /\ action = "send_funds"
    /\ Len(calls) = 2
    /\ calls[2].outcome = "notfound"
    /\ ~ret.value.success
    /\ ret.value.error.fmt = "FileNotFoundError"

\* C25: when the recipient or the amount field is empty, or the amount is no
\* number, _send_transaction runs no command and adds no history row; with an
\* empty field it shows the warning.
C25_FormRejected ==
    [][action' = "_send_transaction" =>
           LET Blank(field) == \A i \in DOMAIN field : field[i] \in Space
               Rejected(recipient, amount) ==
                   /\ (Blank(recipient) \/ Blank(amount)
                           \/ float_of(amount).kind /= "finite")
                          => /\ calls' = << >>
                             /\ widgets'.tx_history = widgets.tx_history
                   /\ (Blank(recipient) \/ Blank(amount))
                          => dialogs' = <<[kind |-> "warning", title |-> "Erreur"]>>
           IN  Rejected(text'[1], text'[2])]_vars

\* The amount field held letters: the error dialog and nothing else.
C25_Witness ==
    /\ action = "_send_transaction"
    /\ text = <<<<"n", "o", "c", "k", "1">>, <<"a", "b", "c">>>>
    /\ dialogs = <<[kind |-> "critical", title |-> "Erreur"]>>
    /\ calls = << >>

\* What _select_wallet logged, and the command line of a call.
Logged(lines, fmt) == \E i \in DOMAIN lines : lines[i].fmt = fmt

Carries(cmd, option, value) ==
    \E j \in DOMAIN cmd : cmd[j] = option /\ j < Len(cmd) /\ cmd[j + 1] = value

C27_NotesTable ==
    [][(action' = "_load_notes" /\ calls' /= << >>) =>
           LET Shown(call, notes) ==
                   IF call.outcome = "exit" /\ call.rc = 0
                   THEN /\ Len(widgets'.notes_table) = Len(notes)
                        /\ \A i \in DOMAIN notes :
                               widgets'.notes_table[i] = [set |-> TRUE, item |-> notes[i]]
                   ELSE widgets'.notes_table = widgets.notes_table
           IN  /\ "list-notes" \in Range(calls'[1].cmd)
               /\ Shown(calls'[1], parse_notes(calls'[1].stdout))]_vars

\* One note is shown where an earlier load had shown two.
C27_Witness ==
    /\ action = "_load_notes"
    /\ Len(log) >= 6
    /\ log[4].fmt = "note(s) trouvee(s)"
    /\ log[4].args = <<"2">>
    /\ calls[1].stdout = NOTES_ONE
    /\ Len(widgets.notes_table) = 1
    /\ widgets.notes_table[1].item = <<"n", "o", "t", "e", " ">> \o HEX40

\* The lines of the text by position: the text between two neighbouring line
\* ends, where the start and the end of the text are line ends too.
LineEnds == {0, Len(text) + 1} \cup {i \in DOMAIN text : text[i] = "\n"}

LineFrom(a) == SubSeq(text, a + 1, Min({b \in LineEnds : b > a}) - 1)

\* t is line without the whitespace at its ends.
Trimmed(line, t) ==
    \/ t = << >> /\ \A i \in DOMAIN line : line[i] \in Space
    \/ \E i, j \in DOMAIN line :
           /\ t = SubSeq(line, i, j)
           /\ line[i] \notin Space /\ line[j] \notin Space
           /\ \A k \in DOMAIN line : (k < i \/ k > j) => line[k] \in Space

\* C28: parse_notes returns the lines that hold a run of at least 40
\* identifier characters (of [0-9a-f] in nock2.py, of [0-9a-zA-Z] in
\* nockwallet-v0.1.1.py), trimmed, in their order and as often as they occur;
\* the empty list when there is none.
C28_NoteLines ==
    action \in {"parse_notes", "v0.1.1 parse_notes"} =>
        LET Identifier(line, C) ==
                \E i \in DOMAIN line :
                    /\ i + NOTE_ID_MIN - 1 <= Len(line)
                    /\ \A j \in i..(i + NOTE_ID_MIN - 1) : line[j] \in C
            Listed(starts) ==
                /\ Len(ret.value) = Cardinality(starts)
                /\ \A a \in starts :
                       Trimmed(LineFrom(a),
                               ret.value[Cardinality({b \in starts : b <= a})])
            Notes(C) ==
                Listed({a \in LineEnds : a <= Len(text) /\ Identifier(LineFrom(a), C)})
        IN  Notes(IF action = "parse_notes" THEN Hex ELSE AlNum)

\* The same note on two lines, once between blanks, and a short run between.
C28_Witness ==
    /\ action = "parse_notes"
    /\ ret.arg = <<" ">> \o HEX40 \o <<"f", "f", " ", "\n">> \o HEX39 \o <<"\n", " ">>
                 \o HEX40 \o <<"f", "f", " ">>
    /\ ret.value = <<HEX40 \o <<"f", "f">>, HEX40 \o <<"f", "f">>>>

\* The lines of stderr extract_error is to return: trimmed, not empty, without
\* any of the markers in whatever case, and not starting with '--'.
ErrorLines(stderr, markers) ==
    LET Kept(line) ==
            /\ line /= << >>
            /\ \A x \in markers : ~Contains(Lower(line), Lower(x))
            /\ ~StartsWith(line, <<"-", "-">>)
        Trim(lines) == [i \in DOMAIN lines |-> Strip(lines[i])]
    IN  SelectSeq(Trim(Split(stderr)), Kept)

\* C29: extract_error returns the trimmed non-empty lines of stderr that hold
\* none of the noise markers of its version and do not start with '--',
\* joined in order, and stderr itself when there is no such line; the result
\* of a non-empty stderr is not empty, and extract_error maps its result to
\* itself.
C29_ErrorLines ==
    action \in {"extract_error", "v0.1.1 extract_error"} =>
        LET Extracted(lines, again) ==
                /\ ret.value = IF lines /= << >> THEN Join(lines) ELSE ret.arg
                /\ ret.arg /= << >> => ret.value /= << >>
                /\ again = ret.value
        IN  IF action = "extract_error"
            THEN Extracted(ErrorLines(ret.arg, NOISE), extract_error(ret.value))
            ELSE Extracted(ErrorLines(ret.arg, SKIP_PATTERNS), extract_error_v011(ret.value))

\* The last file operation of the step was a write that went well.
Written(ops) == ops /= << >> /\ ops[Len(ops)] = "write"

\* C22: a step that changes the configuration in memory writes it, and when the
\* write goes well the file holds the configuration of memory and loads back
\* as it.
C22_SavedWhenChanged ==
    [][config' /= config =>
           /\ action' \in {"_select_wallet", "_import_wallet", "_save_params"}
           /\ fileops' /= << >>
           /\ fileops'[Len(fileops')] \in {"write", "write_failed"}
           /\ Written(fileops') => disk' = SavedFile(config') /\ Load(app, disk') = config']_vars

\* v0.1.1 has imported keys, found wallet.dat and written the configuration.
C22_Witness ==
    /\ app = "v011"
    /\ action = "_import_wallet"
    /\ config["wallet_path"] = PyStr(DEFAULT_WALLET_DAT)
    /\ Written(fileops)
    /\ disk = SavedFile(config)

\* The import command of the step did not end with exit status 0.
ImportFailed(cs) ==
    /\ cs /= << >>
    /\ "import-keys" \in Range(cs[1].cmd)
    /\ cs[1].outcome /= "exit" \/ cs[1].rc /= 0

\* C23: an import whose command exits non-zero, times out or cannot be started
\* leaves wallet_path, wallet_imported, last_used_directory, the configuration
\* file and the wallet path label as they were, and runs no other command.
C23_FailedImport ==
    [][(action' = "_import_wallet" /\ ImportFailed(calls')) =>
           /\ DOMAIN config' = DOMAIN config
           /\ \A k \in DOMAIN config \cap {"wallet_path", "wallet_imported",
                                           "last_used_directory"} : config'[k] = config[k]
           /\ disk' = disk
           /\ fileops' = << >>
           /\ widgets'.wallet_path_label = widgets.wallet_path_label
           /\ Len(calls') = 1]_vars

\* v0.1.1 with a wallet in its configuration: import-keys timed out.
C23_Witness ==
    /\ app = "v011"
    /\ action = "_import_wallet"
    /\ Len(calls) = 1
    /\ calls[1].outcome = "hang"
    /\ config["wallet_imported"] = PyBool(TRUE)
    /\ config["wallet_path"] = PyStr("/w/b.wallet")

\* The import command of a v0.1.1 step ended with exit status 0.
ImportedV011(cs) ==
    /\ app = "v011"
    /\ cs /= << >>
    /\ "import-keys" \in Range(cs[1].cmd)
    /\ cs[1].outcome = "exit" /\ cs[1].rc = 0

====
